---- MODULE Spec2Model ----
(***************************************************************************)
(* Model of the ia-docx-editor codec: Extractor (extractor.js), Validator  *)
(* (validator.js), the Express server and the Reconstructor.                *)
(*                                                                         *)
(* JavaScript values are tagged records, so that values of different JS    *)
(* types can be compared the way === compares them:                        *)
(*   Undef, Null, Str(s), Num(n), Arr(<<...>>), and objects, which are     *)
(*   records with k = "object" and one field per property.                 *)
(***************************************************************************)
EXTENDS Integers, Sequences, FiniteSets, TLC

VARIABLES
    modified,       \* the candidate Document (any JSON value) handed to the Validator
    original,       \* the original Document the candidate is checked against
    result,         \* what the last call of validateModifiedJson produced
    pc,             \* position of the current run
    docx,           \* codec: the .docx container that was uploaded
    output,         \* codec: the container reconstructDocx produced
    reextracted,    \* codec: the Document extracted from output
    documentStore,  \* server: documentId -> { buffer, originalJson, fileName, createdAt }
    clock,          \* server: Date.now(), in milliseconds since start-up
    cleanupDue,     \* server: the cleanup timer has expired and its callback is queued
    pending,        \* server: the reconstruct request that awaits reconstructDocx
    response,       \* server: the last response sent, with the request it answers
    nextId,         \* server: how many documentIds crypto.randomUUID() has drawn
    mdParagraph,    \* markdown: the w:p node given to getFormattedText
    mdText,         \* markdown: a text with markers, formatted or typed
    mdSegments,     \* markdown: the segments parseMarkdown returned for mdText
    clNode,         \* classification: the w:p node given to classifyParagraph
    clResult,       \* classification: what classifyParagraph returned for clNode
    clLevel,        \* classification: what detectHeadingByPattern returned for its text
    state,          \* client: { documentId, validated } (originalJson is only displayed)
    jsonModified,   \* client: the value of the modified-JSON field
    fetches,        \* client: the requests sent whose response is awaited
    lastValidation, \* client: the request the last validation verdict received was for
    provider,       \* callAI: the provider name it was called with
    requests,       \* callAI: the models httpsPost was called for, with what came back
    outcome         \* callAI: what the call returned or threw

validatorVars == <<modified, original, result>>
codecVars == <<docx, output, reextracted>>
serverVars == <<documentStore, clock, cleanupDue, pending, response, nextId>>
markdownVars == <<mdParagraph, mdText, mdSegments>>
classifyVars == <<clNode, clResult, clLevel>>
clientVars == <<state, jsonModified, fetches, lastValidation>>
aiVars == <<provider, requests, outcome>>

vars == <<modified, original, result, pc, docx, output, reextracted,
          documentStore, clock, cleanupDue, pending, response, nextId,
          mdParagraph, mdText, mdSegments, clNode, clResult, clLevel,
          state, jsonModified, fetches, lastValidation, provider, requests, outcome>>

-----------------------------------------------------------------------------
(* JavaScript values *)

Undef == [k |-> "undefined"]
Null == [k |-> "null"]
Str(s) == [k |-> "string", s |-> s]      \* a string used as a whole (id, type)
Txt(t) == [k |-> "string", t |-> t]      \* a string kept as its characters (text)
Num(n) == [k |-> "number", n |-> n]
Arr(a) == [k |-> "array", a |-> a]

\* !v is false exactly for the truthy values
Truthy(v) ==
    CASE v.k = "undefined" -> FALSE
      [] v.k = "null" -> FALSE
      [] v.k = "string" -> IF "s" \in DOMAIN v THEN v.s # "" ELSE v.t # <<>>
      [] v.k = "number" -> v.n # 0
      [] OTHER -> TRUE

\* typeof v === 'object' (null and arrays included)
TypeofObject(v) == v.k \in {"null", "array", "object"}

\* Array.isArray(v)
IsArray(v) == v.k = "array"

\* v.f for a value v that is neither null nor undefined: a missing property
\* (and any property of a primitive or of an array) reads as undefined
Field(v, f) == IF v.k = "object" /\ f \in DOMAIN v THEN v[f] ELSE Undef

\* v.length
LengthOf(v) ==
    IF v.k = "array" THEN Num(Len(v.a))
    ELSE IF v.k = "string" THEN Num(IF "t" \in DOMAIN v THEN Len(v.t) ELSE Len(v.s))
    ELSE Undef

\* v[r] for a 0-based index r
At(v, r) == IF v.k = "array" /\ r + 1 \in DOMAIN v.a THEN v.a[r + 1] ELSE Undef

\* reading a property of v raises TypeError
Nullish(v) == v.k \in {"undefined", "null"}

\* a const binding: F applied to the value of v, which is computed once
\* however often F reads it
With(v, F(_)) == CHOOSE r \in {F(x) : x \in {v}} : TRUE

-----------------------------------------------------------------------------
(* Document JSON: constructors of the objects the codec exchanges *)

Metadata == [k |-> "object", fileName |-> Str("document.docx")]

Document(meta, blocks) == [k |-> "object", metadata |-> meta, blocks |-> blocks]

Block(id, type, level, text, rows) ==
    [k |-> "object", id |-> id, type |-> type, level |-> level, text |-> text,
     rows |-> rows]

Cell(id, text) == [k |-> "object", id |-> id, text |-> text]

TitleBlock(id, text) == Block(Str(id), Str("title"), Undef, text, Undef)
HeadingBlock(id, level, text) == Block(Str(id), Str("heading"), Num(level), text, Undef)
ParagraphBlock(id, text) == Block(Str(id), Str("paragraph"), Undef, text, Undef)
ListItemBlock(id, level, text) == Block(Str(id), Str("list_item"), Num(level), text, Undef)
TableBlock(id, rows) == Block(Str(id), Str("table"), Undef, Undef, rows)

-----------------------------------------------------------------------------
(* validator.js: validateModifiedJson *)

\* one entry of the errors array: the rule violated and where (0-based block,
\* row and cell index as in the message; -1 where the message names none)
Err(rule, i, r, c) == [rule |-> rule, block |-> i, row |-> r, cell |-> c]

validTypes == {"title", "heading", "paragraph", "list_item", "table"}

ValidType(t) == t.k = "string" /\ "s" \in DOMAIN t /\ t.s \in validTypes

\* the { valid, errors } object a return statement builds; threw = TRUE stands
\* for the call ending in an exception instead of returning
Returned(valid, errors) == [threw |-> FALSE, valid |-> valid, errors |-> errors]
Thrown == [threw |-> TRUE, valid |-> FALSE, errors |-> <<>>]

\* the loop filling originalBlockMap reads block.id of every element
OriginalMapThrows(orig) ==
    /\ Truthy(orig)
    /\ IsArray(Field(orig, "blocks"))
    /\ \E j \in DOMAIN Field(orig, "blocks").a : Nullish(Field(orig, "blocks").a[j])

\* originalBlockMap.get(id): the last original block stored under that id
OrigLookup(orig, id) ==
    IF Truthy(orig) /\ IsArray(Field(orig, "blocks"))
    THEN LET bs == Field(orig, "blocks").a
             hits == {j \in DOMAIN bs : Field(bs[j], "id") = id}
         IN IF hits = {} THEN Undef
            ELSE bs[CHOOSE j \in hits : \A h \in hits : h <= j]
    ELSE Undef

\* number comparison block.level < 1 (typeof number already established)
LevelInvalid(level) == level.k # "number" \/ level.n < 1

TextInvalid(text) == text.k # "string"

\* faulty variant: a block whose id is not in the original is treated as one
\* that changed its type
CrossReference_NewIdChecked(block, origBlock, i) ==
    IF Truthy(origBlock)
    THEN (IF Field(block, "type") # Field(origBlock, "type")
          THEN <<Err("type_changed", i, -1, -1)>> ELSE <<>>)
         \o
         (IF /\ Field(origBlock, "type") = Str("heading")
             /\ Field(block, "type") = Str("heading")
             /\ Field(block, "level") # Field(origBlock, "level")
          THEN <<Err("level_changed", i, -1, -1)>> ELSE <<>>)
    ELSE <<Err("type_changed", i, -1, -1)>>

\* faulty variant: the level comparison is not restricted to headings that
\* stay headings
CrossReference_LevelOfAnyType(block, origBlock, i) ==
    IF Truthy(origBlock)
    THEN (IF Field(block, "type") # Field(origBlock, "type")
          THEN <<Err("type_changed", i, -1, -1)>> ELSE <<>>)
         \o
         (IF /\ Field(origBlock, "type") = Str("heading")
             /\ Field(block, "level") # Field(origBlock, "level")
          THEN <<Err("level_changed", i, -1, -1)>> ELSE <<>>)
    ELSE <<>>

CrossReference(block, origBlock, i) ==
    IF Truthy(origBlock)
    THEN (IF Field(block, "type") # Field(origBlock, "type")
          THEN <<Err("type_changed", i, -1, -1)>> ELSE <<>>)
         \o
         (IF /\ Field(origBlock, "type") = Str("heading")
             /\ Field(block, "type") = Str("heading")
             /\ Field(block, "level") # Field(origBlock, "level")
          THEN <<Err("level_changed", i, -1, -1)>> ELSE <<>>)
    ELSE <<>>

TypeShape(block, i) ==
    LET type == Field(block, "type").s
        level == Field(block, "level")
        text == Field(block, "text")
    IN  CASE type = "heading" ->
               (IF LevelInvalid(level) THEN <<Err("heading_level", i, -1, -1)>> ELSE <<>>)
               \o (IF TextInvalid(text) THEN <<Err("text", i, -1, -1)>> ELSE <<>>)
          [] type \in {"title", "paragraph"} ->
               (IF TextInvalid(text) THEN <<Err("text", i, -1, -1)>> ELSE <<>>)
          [] type = "list_item" ->
               (IF TextInvalid(text) THEN <<Err("text", i, -1, -1)>> ELSE <<>>)
               \o (IF LevelInvalid(level) THEN <<Err("list_level", i, -1, -1)>> ELSE <<>>)
          [] OTHER -> <<>>

\* faulty variant: cell ids are looked up in seenIds but never added to it
CheckCell_IdsNotRemembered(cell, i, r, c, st) ==
    IF ~Truthy(cell) \/ ~TypeofObject(cell)
    THEN [st EXCEPT !.errors = @ \o <<Err("cell_invalid", i, r, c)>>]
    ELSE LET id == Field(cell, "id")
             text == Field(cell, "text")
         IN [errors |-> st.errors
                \o (IF ~Truthy(id) \/ id.k # "string"
                    THEN <<Err("cell_id_missing", i, r, c)>> ELSE <<>>)
                \o (IF id \in st.seen
                    THEN <<Err("cell_id_duplicate", i, r, c)>> ELSE <<>>)
                \o (IF text.k # "string"
                    THEN <<Err("cell_text", i, r, c)>> ELSE <<>>),
             seen |-> st.seen]

\* the checks of one cell: st = [errors, seen] before, the same record after
CheckCell(cell, i, r, c, st) ==
    IF ~Truthy(cell) \/ ~TypeofObject(cell)
    THEN [st EXCEPT !.errors = @ \o <<Err("cell_invalid", i, r, c)>>]
    ELSE LET id == Field(cell, "id")
             text == Field(cell, "text")
         IN [errors |-> st.errors
                \o (IF ~Truthy(id) \/ id.k # "string"
                    THEN <<Err("cell_id_missing", i, r, c)>> ELSE <<>>)
                \o (IF id \in st.seen
                    THEN <<Err("cell_id_duplicate", i, r, c)>> ELSE <<>>)
                \o (IF text.k # "string"
                    THEN <<Err("cell_text", i, r, c)>> ELSE <<>>),
             seen |-> IF Truthy(id) THEN st.seen \cup {id} ELSE st.seen]

RECURSIVE CellLoop(_, _, _, _, _)
CellLoop(row, i, r, c, st) ==
    IF c >= Len(row.a) THEN st
    ELSE CellLoop(row, i, r, c + 1, CheckCell(row.a[c + 1], i, r, c, st))

RECURSIVE RowLoop(_, _, _, _)
RowLoop(rows, i, r, st) ==
    IF r >= Len(rows.a) THEN st
    ELSE LET row == rows.a[r + 1]
         IN IF ~IsArray(row)
            THEN RowLoop(rows, i, r + 1,
                         [st EXCEPT !.errors = @ \o <<Err("row_not_array", i, r, -1)>>])
            ELSE RowLoop(rows, i, r + 1, CellLoop(row, i, r, 0, st))

\* origBlock.rows.length is read as soon as the original block is a table
GeometryThrows(origBlock) ==
    /\ Truthy(origBlock)
    /\ Field(origBlock, "type") = Str("table")
    /\ Nullish(Field(origBlock, "rows"))

\* faulty variant: the first row is never compared
CellCountLoop_FromSecondRow(rows, origRows, i, r) ==
    LET Differs(q) == /\ Truthy(At(rows, q))
                      /\ Truthy(At(origRows, q))
                      /\ LengthOf(At(rows, q)) # LengthOf(At(origRows, q))
        RECURSIVE From(_)
        From(q) == IF q >= Len(origRows.a) THEN <<>>
                   ELSE (IF Differs(q) THEN <<Err("cell_count_changed", i, q, -1)>>
                         ELSE <<>>) \o From(q + 1)
    IN From(r + 1)

RECURSIVE CellCountLoop(_, _, _, _)
CellCountLoop(rows, origRows, i, r) ==
    IF r >= Len(origRows.a) THEN <<>>
    ELSE (IF /\ Truthy(At(rows, r))
             /\ Truthy(At(origRows, r))
             /\ LengthOf(At(rows, r)) # LengthOf(At(origRows, r))
          THEN <<Err("cell_count_changed", i, r, -1)>> ELSE <<>>)
         \o CellCountLoop(rows, origRows, i, r + 1)

\* faulty variant: only a table that lost rows is reported
TableGeometry_OnlyFewerRows(block, origBlock, i) ==
    IF Truthy(origBlock) /\ Field(origBlock, "type") = Str("table")
    THEN LET rows == Field(block, "rows")
             origRows == Field(origBlock, "rows")
         IN IF LengthOf(rows).n < LengthOf(origRows).n
            THEN <<Err("row_count_changed", i, -1, -1)>>
            ELSE CellCountLoop(rows, origRows, i, 0)
    ELSE <<>>

TableGeometry(block, origBlock, i) ==
    IF Truthy(origBlock) /\ Field(origBlock, "type") = Str("table")
    THEN LET rows == Field(block, "rows")
             origRows == Field(origBlock, "rows")
         IN IF LengthOf(rows) # LengthOf(origRows)
            THEN <<Err("row_count_changed", i, -1, -1)>>
            ELSE CellCountLoop(rows, origRows, i, 0)
    ELSE <<>>

\* faulty variant: a block that is not an object ends the loop's work, the
\* state of the checks being left as it is from there on
CheckBlock_StopsAtMalformed(block, i, orig, st) ==
    IF st.errors # <<>> /\ st.errors[Len(st.errors)].rule = "block_invalid" THEN st
    ELSE IF ~Truthy(block) \/ ~TypeofObject(block)
    THEN [st EXCEPT !.errors = @ \o <<Err("block_invalid", i, -1, -1)>>]
    ELSE LET id == Field(block, "id") IN
    IF ~Truthy(id) \/ id.k # "string"
    THEN [st EXCEPT !.errors = @ \o <<Err("id_missing", i, -1, -1)>>]
    ELSE LET st1 == [st EXCEPT
                       !.errors = @ \o (IF id \in st.seen
                                        THEN <<Err("id_duplicate", i, -1, -1)>>
                                        ELSE <<>>),
                       !.seen = @ \cup {id}]
         IN
    IF ~ValidType(Field(block, "type"))
    THEN [st1 EXCEPT !.errors = @ \o <<Err("type_invalid", i, -1, -1)>>]
    ELSE LET origBlock == OrigLookup(orig, id)
             st2 == [st1 EXCEPT !.errors = @ \o CrossReference(block, origBlock, i)
                                              \o TypeShape(block, i)]
         IN
    IF Field(block, "type") # Str("table") THEN st2
    ELSE IF ~IsArray(Field(block, "rows"))
    THEN [st2 EXCEPT !.errors = @ \o <<Err("rows_not_array", i, -1, -1)>>]
    ELSE LET cells == RowLoop(Field(block, "rows"), i, 0,
                              [errors |-> st2.errors, seen |-> st2.seen])
         IN IF GeometryThrows(origBlock)
            THEN [errors |-> cells.errors, seen |-> cells.seen, threw |-> TRUE]
            ELSE [errors |-> cells.errors \o TableGeometry(block, origBlock, i),
                  seen |-> cells.seen, threw |-> FALSE]

\* one iteration of the per-block loop: st = [errors, seen, threw]
CheckBlock(block, i, orig, st) ==
    IF ~Truthy(block) \/ ~TypeofObject(block)
    THEN [st EXCEPT !.errors = @ \o <<Err("block_invalid", i, -1, -1)>>]
    ELSE LET id == Field(block, "id") IN
    IF ~Truthy(id) \/ id.k # "string"
    THEN [st EXCEPT !.errors = @ \o <<Err("id_missing", i, -1, -1)>>]
    ELSE LET st1 == [st EXCEPT
                       !.errors = @ \o (IF id \in st.seen
                                        THEN <<Err("id_duplicate", i, -1, -1)>>
                                        ELSE <<>>),
                       !.seen = @ \cup {id}]
         IN
    IF ~ValidType(Field(block, "type"))
    THEN [st1 EXCEPT !.errors = @ \o <<Err("type_invalid", i, -1, -1)>>]
    ELSE LET origBlock == OrigLookup(orig, id)
             st2 == [st1 EXCEPT !.errors = @ \o CrossReference(block, origBlock, i)
                                              \o TypeShape(block, i)]
         IN
    IF Field(block, "type") # Str("table") THEN st2
    ELSE IF ~IsArray(Field(block, "rows"))
    THEN [st2 EXCEPT !.errors = @ \o <<Err("rows_not_array", i, -1, -1)>>]
    ELSE LET cells == RowLoop(Field(block, "rows"), i, 0,
                              [errors |-> st2.errors, seen |-> st2.seen])
         IN IF GeometryThrows(origBlock)
            THEN [errors |-> cells.errors, seen |-> cells.seen, threw |-> TRUE]
            ELSE [errors |-> cells.errors \o TableGeometry(block, origBlock, i),
                  seen |-> cells.seen, threw |-> FALSE]

RECURSIVE BlockLoop(_, _, _, _)
BlockLoop(blocks, i, orig, st) ==
    IF st.threw \/ i >= Len(blocks) THEN st
    ELSE BlockLoop(blocks, i + 1, orig, CheckBlock(blocks[i + 1], i, orig, st))

\* faulty variant: only an absent metadata is a violation
RootErrors_OnlyAbsent(mod) ==
    IF ~Truthy(Field(mod, "metadata"))
    THEN <<Err("metadata", -1, -1, -1)>> ELSE <<>>

RootErrors(mod) ==
    IF ~Truthy(Field(mod, "metadata")) \/ ~TypeofObject(Field(mod, "metadata"))
    THEN <<Err("metadata", -1, -1, -1)>> ELSE <<>>

\* faulty variant: a missing blocks array is pushed onto the accumulated errors
\* instead of being returned alone
validateModifiedJson_Accumulating(mod, orig) ==
    IF ~Truthy(mod) \/ ~TypeofObject(mod)
    THEN Returned(FALSE, <<Err("root_not_object", -1, -1, -1)>>)
    ELSE IF ~IsArray(Field(mod, "blocks"))
    THEN Returned(FALSE, RootErrors(mod) \o <<Err("blocks_not_array", -1, -1, -1)>>)
    ELSE IF OriginalMapThrows(orig) THEN Thrown
    ELSE LET st == BlockLoop(Field(mod, "blocks").a, 0, orig,
                             [errors |-> RootErrors(mod), seen |-> {}, threw |-> FALSE])
         IN IF st.threw THEN Thrown
            ELSE Returned(st.errors = <<>>, st.errors)

\* faulty variant: the final result calls a candidate valid when only its
\* metadata is wrong
validateModifiedJson_MetadataIgnored(mod, orig) ==
    IF ~Truthy(mod) \/ ~TypeofObject(mod)
    THEN Returned(FALSE, <<Err("root_not_object", -1, -1, -1)>>)
    ELSE IF ~IsArray(Field(mod, "blocks"))
    THEN Returned(FALSE, <<Err("blocks_not_array", -1, -1, -1)>>)
    ELSE IF OriginalMapThrows(orig) THEN Thrown
    ELSE LET st == BlockLoop(Field(mod, "blocks").a, 0, orig,
                             [errors |-> RootErrors(mod), seen |-> {}, threw |-> FALSE])
         IN IF st.threw THEN Thrown
            ELSE Returned(st.errors \in {<<>>, <<Err("metadata", -1, -1, -1)>>},
                          st.errors)

validateModifiedJson(mod, orig) ==
    IF ~Truthy(mod) \/ ~TypeofObject(mod)
    THEN Returned(FALSE, <<Err("root_not_object", -1, -1, -1)>>)
    ELSE IF ~IsArray(Field(mod, "blocks"))
    THEN Returned(FALSE, <<Err("blocks_not_array", -1, -1, -1)>>)
    ELSE IF OriginalMapThrows(orig) THEN Thrown
    ELSE LET st == BlockLoop(Field(mod, "blocks").a, 0, orig,
                             [errors |-> RootErrors(mod), seen |-> {}, threw |-> FALSE])
         IN IF st.threw THEN Thrown
            ELSE Returned(st.errors = <<>>, st.errors)

-----------------------------------------------------------------------------
(* Strings as sequences of characters *)

Digits == {"0", "1", "2", "3", "4", "5", "6", "7", "8", "9"}
Whitespace == {" ", "\t", "\n"}

\* String.prototype.trim
RECURSIVE TrimStart(_)
TrimStart(s) == IF s # <<>> /\ Head(s) \in Whitespace THEN TrimStart(Tail(s)) ELSE s

RECURSIVE TrimEnd(_)
TrimEnd(s) ==
    IF s # <<>> /\ s[Len(s)] \in Whitespace THEN TrimEnd(SubSeq(s, 1, Len(s) - 1)) ELSE s

Trim(s) == TrimEnd(TrimStart(s))

\* the longest prefix of s made of characters of set C
RECURSIVE PrefixIn(_, _)
PrefixIn(s, C) ==
    IF s # <<>> /\ Head(s) \in C THEN <<Head(s)>> \o PrefixIn(Tail(s), C) ELSE <<>>

DigitValue(c) ==
    CASE c = "0" -> 0 [] c = "1" -> 1 [] c = "2" -> 2 [] c = "3" -> 3 [] c = "4" -> 4
      [] c = "5" -> 5 [] c = "6" -> 6 [] c = "7" -> 7 [] c = "8" -> 8 [] c = "9" -> 9

RECURSIVE DecimalValue(_)
DecimalValue(ds) ==
    IF ds = <<>> THEN 0
    ELSE 10 * DecimalValue(SubSeq(ds, 1, Len(ds) - 1)) + DigitValue(ds[Len(ds)])

\* parseInt(s, 10): leading white space, an optional sign, then digits; NaN
\* when no digit follows
NaN == [nan |-> TRUE, n |-> 0]
Parsed(n) == [nan |-> FALSE, n |-> n]

parseInt(s) ==
    LET t == TrimStart(s)
        neg == t # <<>> /\ Head(t) = "-"
        u == IF t # <<>> /\ Head(t) \in {"-", "+"} THEN Tail(t) ELSE t
        ds == PrefixIn(u, Digits)
    IN IF ds = <<>> THEN NaN
       ELSE Parsed(IF neg THEN 0 - DecimalValue(ds) ELSE DecimalValue(ds))

\* String(index).padStart(4, '0')
padStart4(n) ==
    IF n < 10 THEN "000" \o ToString(n)
    ELSE IF n < 100 THEN "00" \o ToString(n)
    ELSE IF n < 1000 THEN "0" \o ToString(n)
    ELSE ToString(n)

-----------------------------------------------------------------------------
(* XML trees: an element has a tag, its w:val attribute (<<>> when absent),  *)
(* its text content when it is a w:t, and its child nodes                  *)

El(tag, val, kids) == [tag |-> tag, val |-> val, text |-> <<>>, kids |-> kids]
WT(chars) == [tag |-> "w:t", val |-> <<>>, text |-> chars, kids |-> <<>>]
TextNode == [tag |-> "#text", val |-> <<>>, text |-> <<>>, kids |-> <<>>]
NoNode == [tag |-> "#null", val |-> <<>>, text |-> <<>>, kids |-> <<>>]

\* child.nodeType === 1
IsElement(n) == n.tag \notin {"#text", "#null"}

\* extractor.js getFirstChild / getDirectChildren
getFirstChild(parent, tagName) ==
    IF parent = NoNode THEN NoNode
    ELSE LET hits == {j \in DOMAIN parent.kids : parent.kids[j].tag = tagName}
         IN IF hits = {} THEN NoNode
            ELSE parent.kids[CHOOSE j \in hits : \A h \in hits : j <= h]

getDirectChildren(parent, tagName) ==
    IF parent = NoNode THEN <<>>
    ELSE LET Is(n) == n.tag = tagName IN SelectSeq(parent.kids, Is)

\* the concatenation of a sequence of sequences
RECURSIVE Flatten(_)
Flatten(ss) == IF ss = <<>> THEN <<>> ELSE Head(ss) \o Flatten(Tail(ss))

\* node.getElementsByTagName(tag): the descendants with that tag, in document order
RECURSIVE getElementsByTagName(_, _)
getElementsByTagName(node, tag) ==
    Flatten([j \in DOMAIN node.kids |->
               (IF node.kids[j].tag = tag THEN <<node.kids[j]>> ELSE <<>>)
               \o getElementsByTagName(node.kids[j], tag)])

RECURSIVE getPlainText(_)
getPlainText(node) ==
    IF node = NoNode THEN <<>>
    ELSE Flatten([j \in DOMAIN node.kids |->
            LET child == node.kids[j]
            IN CASE child.tag = "w:t" -> child.text
                 [] child.tag = "w:tab" -> <<"\t">>
                 [] child.tag = "w:br" -> <<"\n">>
                 [] IsElement(child) /\ child.tag \notin {"w:t", "w:tab", "w:br", "w:pPr", "w:rPr"}
                      -> getPlainText(child)
                 [] OTHER -> <<>>])

hasBoolProp(rPr, propName) ==
    IF rPr = NoNode THEN FALSE
    ELSE LET prop == getFirstChild(rPr, propName)
         IN IF prop = NoNode THEN FALSE
            ELSE prop.val # <<"0">> /\ prop.val # <<"f", "a", "l", "s", "e">>

Segment(text, bold, italic) == [text |-> text, bold |-> bold, italic |-> italic]

\* the segments one w:r contributes
RunSegments(run) ==
    LET rPr == getFirstChild(run, "w:rPr")
        bold == hasBoolProp(rPr, "w:b")
        italic == hasBoolProp(rPr, "w:i")
    IN Flatten([j \in DOMAIN run.kids |->
            LET rc == run.kids[j]
            IN CASE rc.tag = "w:t" -> <<Segment(rc.text, bold, italic)>>
                 [] rc.tag = "w:tab" -> <<Segment(<<"\t">>, FALSE, FALSE)>>
                 [] rc.tag = "w:br" -> <<Segment(<<"\n">>, FALSE, FALSE)>>
                 [] OTHER -> <<>>])

RECURSIVE collectFormattedSegments(_)
collectFormattedSegments(node) ==
    IF node = NoNode THEN <<>>
    ELSE Flatten([j \in DOMAIN node.kids |->
            LET child == node.kids[j]
            IN CASE child.tag = "w:r" -> RunSegments(child)
                 [] child.tag = "w:hyperlink" -> collectFormattedSegments(child)
                 [] OTHER -> <<>>])

RECURSIVE MergeInto(_, _)
MergeInto(res, segments) ==
    IF segments = <<>> THEN res
    ELSE LET last == res[Len(res)]
             seg == Head(segments)
         IN IF last.bold = seg.bold /\ last.italic = seg.italic
            THEN MergeInto([res EXCEPT ![Len(res)].text = @ \o seg.text], Tail(segments))
            ELSE MergeInto(Append(res, seg), Tail(segments))

mergeSegments(segments) ==
    IF segments = <<>> THEN <<>> ELSE MergeInto(<<Head(segments)>>, Tail(segments))

\* faulty variant: italic text gets the marker of bold text
Marker_ItalicAsBold(bold, italic) ==
    IF bold /\ italic THEN <<"*", "*", "*">>
    ELSE IF bold \/ italic THEN <<"*", "*">>
    ELSE <<>>

\* the markers getFormattedText puts around a segment
Marker(bold, italic) ==
    IF bold /\ italic THEN <<"*", "*", "*">>
    ELSE IF bold THEN <<"*", "*">>
    ELSE IF italic THEN <<"*">>
    ELSE <<>>

RenderSegment(seg) ==
    IF seg.text = <<>> THEN <<>>
    ELSE Marker(seg.bold, seg.italic) \o seg.text \o Marker(seg.bold, seg.italic)

getFormattedText(pNode) ==
    With(mergeSegments(collectFormattedSegments(pNode)), LAMBDA merged :
       Flatten([j \in DOMAIN merged |-> RenderSegment(merged[j])]))

imageTags == {"w:drawing", "w:pict", "mc:AlternateContent"}

hasImage(node) == \E tag \in imageTags : getElementsByTagName(node, tag) # <<>>

isImageOnlyParagraph(pNode) == hasImage(pNode) /\ Trim(getPlainText(pNode)) = <<>>

Separators == {".", "-", ":", ")"}
UpperCase == {"A", "B", "C", "D", "E", "O", "X"}

\* s is d+(.d+)*
RECURSIVE IsDottedNumeral(_)
IsDottedNumeral(s) ==
    LET ds == PrefixIn(s, Digits)
    IN /\ ds # <<>>
       /\ \/ Len(ds) = Len(s)
          \/ /\ s[Len(ds) + 1] = "."
             /\ IsDottedNumeral(SubSeq(s, Len(ds) + 2, Len(s)))

DotCount(s) == Cardinality({j \in DOMAIN s : s[j] = "."})

\* /^(\d+(?:\.\d+)*)\s*[\.\-:)]\s*/ : the regular expression engine gives the
\* group the longest dotted numeral after which optional white space and one
\* separator follow (it backtracks from the longest numeral to shorter ones)
NumeralPrefixes(t) ==
    {n \in 1..Len(t) :
        /\ IsDottedNumeral(SubSeq(t, 1, n))
        /\ LET rest == TrimStart(SubSeq(t, n + 1, Len(t)))
           IN rest # <<>> /\ Head(rest) \in Separators}

\* /^(\d+)\s+[A-Z...]/
BareNumberHeading(t) ==
    LET ds == PrefixIn(t, Digits)
        rest == SubSeq(t, Len(ds) + 1, Len(t))
        after == TrimStart(rest)
    IN /\ ds # <<>>
       /\ Len(after) < Len(rest)
       /\ after # <<>>
       /\ Head(after) \in UpperCase

NoLevel == 0 - 1000     \* stands for the null detectHeadingByPattern returns

detectHeadingByPattern(text) ==
    With(Trim(text), LAMBDA trimmed :
    With(NumeralPrefixes(trimmed), LAMBDA ends :
       IF ends # {}
       THEN LET n == CHOOSE n \in ends : \A m \in ends : m <= n
            IN DotCount(SubSeq(trimmed, 1, n)) + 1
       ELSE IF BareNumberHeading(trimmed) THEN 1
       ELSE NoLevel))

isListItem(pNode) ==
    LET pPr == getFirstChild(pNode, "w:pPr")
    IN IF pPr = NoNode THEN FALSE ELSE getFirstChild(pPr, "w:numPr") # NoNode

getListLevel(pNode) ==
    LET pPr == getFirstChild(pNode, "w:pPr")
        numPr == getFirstChild(pPr, "w:numPr")
        ilvl == getFirstChild(numPr, "w:ilvl")
    IN IF pPr = NoNode \/ numPr = NoNode \/ ilvl = NoNode THEN 1
       ELSE LET v == parseInt(ilvl.val)
            IN (IF v.nan \/ v.n = 0 THEN 0 ELSE v.n) + 1

\* a w:style element of styles.xml: its w:type and w:styleId attributes and
\* its children (w:name, w:pPr holding w:outlineLvl)
Style(type, styleId, kids) ==
    [tag |-> "w:style", type |-> type, styleId |-> styleId, kids |-> kids]

LowerCase(c) ==
    CASE c = "H" -> "h" [] c = "E" -> "e" [] c = "A" -> "a" [] c = "D" -> "d"
      [] c = "I" -> "i" [] c = "N" -> "n" [] c = "G" -> "g" [] c = "O" -> "o"
      [] c = "C" -> "c" [] c = "X" -> "x" [] OTHER -> c

\* /^heading\s*\d+$/i.test(name)
IsHeadingName(name) ==
    /\ Len(name) > 7
    /\ [j \in 1..7 |-> LowerCase(name[j])] = <<"h", "e", "a", "d", "i", "n", "g">>
    /\ LET rest == TrimStart(SubSeq(name, 8, Len(name)))
       IN rest # <<>> /\ \A j \in DOMAIN rest : rest[j] \in Digits

\* name.match(/\d+/)[0]: the first run of digits of the name
RECURSIVE FirstDigits(_)
FirstDigits(s) ==
    IF s = <<>> THEN <<>>
    ELSE IF Head(s) \in Digits THEN PrefixIn(s, Digits)
    ELSE FirstDigits(Tail(s))

StyleName(style) ==
    LET nameEls == getElementsByTagName(style, "w:name")
    IN IF nameEls # <<>> THEN nameEls[1].val ELSE <<>>

EmptyMap == [x \in {} |-> 0]
MapSet(map, key, v) == [x \in DOMAIN map \cup {key} |-> IF x = key THEN v ELSE map[x]]

\* the heading level buildHeadingStyleMap stores for one style, NoLevel for
\* a style it stores nothing for
HeadingStyleLevel(style) ==
    LET outlineLvls == getElementsByTagName(style, "w:outlineLvl")
    IN IF outlineLvls # <<>>
       THEN LET level == parseInt(outlineLvls[1].val)
            IN IF ~level.nan THEN level.n + 1 ELSE NoLevel
       ELSE IF IsHeadingName(StyleName(style))
       THEN parseInt(FirstDigits(StyleName(style))).n
       ELSE NoLevel

RECURSIVE buildHeadingStyleMapFrom(_, _)
buildHeadingStyleMapFrom(styles, headingMap) ==
    IF styles = <<>> THEN headingMap
    ELSE LET style == Head(styles)
         IN IF style.type # <<"p", "a", "r", "a", "g", "r", "a", "p", "h">>
               \/ style.styleId = <<>>
               \/ HeadingStyleLevel(style) = NoLevel
            THEN buildHeadingStyleMapFrom(Tail(styles), headingMap)
            ELSE buildHeadingStyleMapFrom(Tail(styles),
                    MapSet(headingMap, style.styleId, HeadingStyleLevel(style)))

\* stylesXml is null when the container has no word/styles.xml
buildHeadingStyleMap(stylesXml) == buildHeadingStyleMapFrom(stylesXml, EmptyMap)

Classified(type, level, text) == [type |-> type, level |-> level, text |-> text]

\* faulty variant: the numbering reference is tested before the text pattern
classifyParagraph_ListFirst(pNode, headingStyles) ==
    LET plainText == Trim(getPlainText(pNode))
        pPr == getFirstChild(pNode, "w:pPr")
        pStyle == getFirstChild(pPr, "w:pStyle")
        outlineLvl == getFirstChild(pPr, "w:outlineLvl")
    IN With(Trim(getFormattedText(pNode)), LAMBDA formattedText :
       With(detectHeadingByPattern(plainText), LAMBDA patternLevel :
          IF pPr # NoNode /\ pStyle # NoNode /\ pStyle.val # <<>>
             /\ pStyle.val \in DOMAIN headingStyles
          THEN Classified("heading", headingStyles[pStyle.val], formattedText)
          ELSE IF pPr # NoNode /\ outlineLvl # NoNode /\ ~parseInt(outlineLvl.val).nan
          THEN Classified("heading", parseInt(outlineLvl.val).n + 1, formattedText)
          ELSE IF isListItem(pNode)
          THEN Classified("list_item", getListLevel(pNode), formattedText)
          ELSE IF patternLevel # NoLevel
          THEN Classified("heading", patternLevel, formattedText)
          ELSE Classified("paragraph", NoLevel, formattedText)))

classifyParagraph(pNode, headingStyles) ==
    LET plainText == Trim(getPlainText(pNode))
        pPr == getFirstChild(pNode, "w:pPr")
        pStyle == getFirstChild(pPr, "w:pStyle")
        outlineLvl == getFirstChild(pPr, "w:outlineLvl")
    IN With(Trim(getFormattedText(pNode)), LAMBDA formattedText :
       With(detectHeadingByPattern(plainText), LAMBDA patternLevel :
          IF pPr # NoNode /\ pStyle # NoNode /\ pStyle.val # <<>>
             /\ pStyle.val \in DOMAIN headingStyles
          THEN Classified("heading", headingStyles[pStyle.val], formattedText)
          ELSE IF pPr # NoNode /\ outlineLvl # NoNode /\ ~parseInt(outlineLvl.val).nan
          THEN Classified("heading", parseInt(outlineLvl.val).n + 1, formattedText)
          ELSE IF patternLevel # NoLevel
          THEN Classified("heading", patternLevel, formattedText)
          ELSE IF isListItem(pNode)
          THEN Classified("list_item", getListLevel(pNode), formattedText)
          ELSE Classified("paragraph", NoLevel, formattedText)))

\* Array.prototype.join('\n')
RECURSIVE JoinLines(_)
JoinLines(lines) ==
    IF lines = <<>> THEN <<>>
    ELSE IF Len(lines) = 1 THEN lines[1]
    ELSE lines[1] \o <<"\n">> \o JoinLines(Tail(lines))

blockId(index) == "block_" \o padStart4(index)
cellId(index, rowIdx, cellIdx) ==
    "cell_" \o padStart4(index) \o "_" \o ToString(rowIdx) \o "_" \o ToString(cellIdx)

extractTable(tblNode, index) ==
    LET trNodes == getDirectChildren(tblNode, "w:tr")
        CellOf(tcNode, rowIdx, cellIdx) ==
            LET ps == getDirectChildren(tcNode, "w:p")
            IN Cell(Str(cellId(index, rowIdx, cellIdx)),
                    Txt(Trim(JoinLines([j \in DOMAIN ps |-> getFormattedText(ps[j])]))))
        RowOf(trNode, rowIdx) ==
            LET tcNodes == getDirectChildren(trNode, "w:tc")
            IN Arr([c \in DOMAIN tcNodes |-> CellOf(tcNodes[c], rowIdx, c - 1)])
    IN TableBlock(blockId(index), Arr([r \in DOMAIN trNodes |-> RowOf(trNodes[r], r - 1)]))

\* the block extractDocx pushes for the w:p at index currentIdx
ParagraphBlockOf(child, currentIdx, headingStyles) ==
    With(classifyParagraph(child, headingStyles), LAMBDA res :
       Block(Str(blockId(currentIdx)), Str(res.type),
             IF res.type \in {"heading", "list_item"} THEN Num(res.level) ELSE Undef,
             Txt(res.text), Undef))

\* faulty variant: a paragraph that is dropped does not consume an index
RECURSIVE ExtractBlocks_SkippedNotCounted(_, _, _, _)
ExtractBlocks_SkippedNotCounted(kids, i, blockIndex, headingStyles) ==
    IF i > Len(kids) THEN <<>>
    ELSE LET child == kids[i] IN
    IF ~IsElement(child)
    THEN ExtractBlocks_SkippedNotCounted(kids, i + 1, blockIndex, headingStyles)
    ELSE IF child.tag = "w:p"
    THEN IF isImageOnlyParagraph(child) \/ Trim(getPlainText(child)) = <<>>
         THEN ExtractBlocks_SkippedNotCounted(kids, i + 1, blockIndex, headingStyles)
         ELSE <<ParagraphBlockOf(child, blockIndex, headingStyles)>>
              \o ExtractBlocks_SkippedNotCounted(kids, i + 1, blockIndex + 1, headingStyles)
    ELSE IF child.tag = "w:tbl"
    THEN <<extractTable(child, blockIndex)>>
         \o ExtractBlocks_SkippedNotCounted(kids, i + 1, blockIndex + 1, headingStyles)
    ELSE ExtractBlocks_SkippedNotCounted(kids, i + 1, blockIndex, headingStyles)

\* the body traversal of extractDocx from child i on, blockIndex being the
\* next index to assign
RECURSIVE ExtractBlocks(_, _, _, _)
ExtractBlocks(kids, i, blockIndex, headingStyles) ==
    IF i > Len(kids) THEN <<>>
    ELSE LET child == kids[i] IN
    IF ~IsElement(child) THEN ExtractBlocks(kids, i + 1, blockIndex, headingStyles)
    ELSE IF child.tag = "w:p"
    THEN (IF isImageOnlyParagraph(child) \/ Trim(getPlainText(child)) = <<>>
          THEN <<>>
          ELSE <<ParagraphBlockOf(child, blockIndex, headingStyles)>>)
         \o ExtractBlocks(kids, i + 1, blockIndex + 1, headingStyles)
    ELSE IF child.tag = "w:tbl"
    THEN <<extractTable(child, blockIndex)>>
         \o ExtractBlocks(kids, i + 1, blockIndex + 1, headingStyles)
    ELSE ExtractBlocks(kids, i + 1, blockIndex, headingStyles)

\* faulty variant: the scan does not stop at a heading or a table
RECURSIVE TitleIndex_PastHeadings(_, _)
TitleIndex_PastHeadings(blocks, i) ==
    IF i > Len(blocks) THEN 0
    ELSE IF blocks[i].type = Str("paragraph") THEN i
    ELSE TitleIndex_PastHeadings(blocks, i + 1)

\* the title pass: the index of the block that becomes the title, 0 for none
RECURSIVE TitleIndex(_, _)
TitleIndex(blocks, i) ==
    IF i > Len(blocks) THEN 0
    ELSE IF blocks[i].type \in {Str("heading"), Str("table")} THEN 0
    ELSE IF blocks[i].type = Str("paragraph") THEN i
    ELSE TitleIndex(blocks, i + 1)

DetectTitle(blocks) ==
    LET t == TitleIndex(blocks, 1)
    IN [j \in DOMAIN blocks |->
          IF j = t THEN [blocks[j] EXCEPT !.type = Str("title")] ELSE blocks[j]]

\* a .docx container: the children of w:body of word/document.xml and the
\* w:style elements of word/styles.xml
Docx(styles, body) == [styles |-> styles, body |-> body]

\* faulty variant: the numbering of a call made later does not start at 0
extractDocx_IndexKept(buffer, fileName, now) ==
    LET IsTable(b) == b.type = Str("table")
    IN With(buildHeadingStyleMap(buffer.styles), LAMBDA headingStyles :
       With(DetectTitle(ExtractBlocks(buffer.body, 1, IF now = 0 THEN 0 ELSE 1,
                                      headingStyles)), LAMBDA blocks :
          [k |-> "object",
           metadata |-> [k |-> "object",
                         fileName |-> Txt(IF fileName = <<>>
                                          THEN <<"d", "o", "c", "u", "m", "e", "n", "t",
                                                 ".", "d", "o", "c", "x">>
                                          ELSE fileName),
                         extractedAt |-> Num(now),
                         blockCount |-> Num(Len(blocks)),
                         tableCount |-> Num(Len(SelectSeq(blocks, IsTable)))],
           blocks |-> Arr(blocks)]))

extractDocx(buffer, fileName, now) ==
    LET IsTable(b) == b.type = Str("table")
    IN With(buildHeadingStyleMap(buffer.styles), LAMBDA headingStyles :
       With(DetectTitle(ExtractBlocks(buffer.body, 1, 0, headingStyles)), LAMBDA blocks :
          [k |-> "object",
           metadata |-> [k |-> "object",
                         fileName |-> Txt(IF fileName = <<>>
                                          THEN <<"d", "o", "c", "u", "m", "e", "n", "t",
                                                 ".", "d", "o", "c", "x">>
                                          ELSE fileName),
                         extractedAt |-> Num(now),
                         blockCount |-> Num(Len(blocks)),
                         tableCount |-> Num(Len(SelectSeq(blocks, IsTable)))],
           blocks |-> Arr(blocks)]))

-----------------------------------------------------------------------------
(* reconstructor: helpers *)

\* removeChildrenByName(parent, tagName), as the children left
WithoutChildren(kids, tags) ==
    LET Keep(n) == n.tag \notin tags IN SelectSeq(kids, Keep)

\* node without any descendant element whose tag is in tags
RECURSIVE StripTags(_, _)
StripTags(node, tags) ==
    With(WithoutChildren(node.kids, tags),
         LAMBDA kept : [node EXCEPT !.kids = [j \in DOMAIN kept |-> StripTags(kept[j], tags)]])

RunHasContent(run) ==
    \E tag \in {"w:t", "w:br", "w:tab"} : getElementsByTagName(run, tag) # <<>>

\* node without any descendant w:r that holds no w:t, w:br or w:tab
RECURSIVE StripEmptyRuns(_)
StripEmptyRuns(node) ==
    LET Keep(n) == n.tag # "w:r" \/ RunHasContent(n)
    IN With(SelectSeq(node.kids, Keep),
            LAMBDA kept : [node EXCEPT !.kids = [j \in DOMAIN kept |-> StripEmptyRuns(kept[j])]])

removeImages(node) ==
    With(StripTags(node, imageTags),
         LAMBDA stripped :
            IF node.tag \in {"w:p", "w:tc"} THEN StripEmptyRuns(stripped) ELSE stripped)

-----------------------------------------------------------------------------
(* reconstructor: parseMarkdown *)

\* the characters the regular expression's . does not match
LineTerminators == {"\n", "\r"}

Min(S) == CHOOSE x \in S : \A y \in S : x <= y

\* m asterisks stand at position p of text
StarsAt(text, p, m) == p + m - 1 <= Len(text) /\ \A j \in p..(p + m - 1) : text[j] = "*"

\* for the alternative with markers of m asterisks tried at position i: the
\* length of the content the lazy (.+?) ends up with, 0 when the alternative
\* does not match there
LazyContent(text, i, m) ==
    LET ok == {n \in 1..Len(text) :
                 /\ \A j \in (i + m)..(i + m + n - 1) :
                       j <= Len(text) /\ text[j] \notin LineTerminators
                 /\ StarsAt(text, i + m + n, m)}
    IN IF StarsAt(text, i, m) /\ ok # {} THEN Min(ok) ELSE 0

\* faulty variant: the alternatives are tried shortest marker first
MatchAt_ItalicFirst(text, i) ==
    IF LazyContent(text, i, 1) > 0 THEN [m |-> 1, n |-> LazyContent(text, i, 1)]
    ELSE IF LazyContent(text, i, 2) > 0 THEN [m |-> 2, n |-> LazyContent(text, i, 2)]
    ELSE IF LazyContent(text, i, 3) > 0 THEN [m |-> 3, n |-> LazyContent(text, i, 3)]
    ELSE [m |-> 0, n |-> 0]

\* the match of /(\*\*\*(.+?)\*\*\*|\*\*(.+?)\*\*|\*(.+?)\*)/ at position i:
\* alternatives are tried in order, m = 0 for no match
MatchAt(text, i) ==
    IF LazyContent(text, i, 3) > 0 THEN [m |-> 3, n |-> LazyContent(text, i, 3)]
    ELSE IF LazyContent(text, i, 2) > 0 THEN [m |-> 2, n |-> LazyContent(text, i, 2)]
    ELSE IF LazyContent(text, i, 1) > 0 THEN [m |-> 1, n |-> LazyContent(text, i, 1)]
    ELSE [m |-> 0, n |-> 0]

\* the while loop over regex.exec from lastIndex = pos - 1 on, and the tail
RECURSIVE ParseFrom(_, _)
ParseFrom(text, pos) ==
    With({i \in pos..Len(text) : MatchAt(text, i).m > 0}, LAMBDA starts :
       IF starts = {}
       THEN (IF pos <= Len(text)
             THEN <<Segment(SubSeq(text, pos, Len(text)), FALSE, FALSE)>> ELSE <<>>)
       ELSE With(Min(starts), LAMBDA i :
            With(MatchAt(text, i), LAMBDA mt :
               (IF i > pos THEN <<Segment(SubSeq(text, pos, i - 1), FALSE, FALSE)>>
                ELSE <<>>)
               \o <<Segment(SubSeq(text, i + mt.m, i + mt.m + mt.n - 1),
                            mt.m \in {2, 3}, mt.m \in {1, 3})>>
               \o ParseFrom(text, i + 2 * mt.m + mt.n))))

parseMarkdown(text) ==
    IF text = <<>> THEN <<Segment(<<>>, FALSE, FALSE)>>
    ELSE With(ParseFrom(text, 1), LAMBDA segments :
            IF segments # <<>> THEN segments ELSE <<Segment(text, FALSE, FALSE)>>)

-----------------------------------------------------------------------------
(* reconstructor: text update *)

\* the w:r updateParagraphText appends for one segment
NewRun(seg, baseRPr) ==
    LET base == IF baseRPr # NoNode THEN baseRPr ELSE El("w:rPr", <<>>, <<>>)
        rPr == [base EXCEPT !.kids =
                  @ \o (IF seg.bold THEN <<El("w:b", <<>>, <<>>), El("w:bCs", <<>>, <<>>)>>
                        ELSE <<>>)
                    \o (IF seg.italic THEN <<El("w:i", <<>>, <<>>), El("w:iCs", <<>>, <<>>)>>
                        ELSE <<>>)]
    IN El("w:r", <<>>, (IF rPr.kids # <<>> THEN <<rPr>> ELSE <<>>) \o <<WT(seg.text)>>)

updateParagraphText(pNode, newText) ==
    LET existingRuns == getDirectChildren(pNode, "w:r")
        rPr == IF existingRuns # <<>> THEN getFirstChild(existingRuns[1], "w:rPr")
               ELSE NoNode
        baseRPr == IF rPr # NoNode
                   THEN [rPr EXCEPT !.kids =
                            WithoutChildren(@, {"w:b", "w:bCs", "w:i", "w:iCs"})]
                   ELSE NoNode
        kept == WithoutChildren(pNode.kids,
                    {"w:r", "w:hyperlink", "w:bookmarkStart", "w:bookmarkEnd"})
        NonEmpty(seg) == seg.text # <<>>
    IN With(SelectSeq(parseMarkdown(newText), NonEmpty), LAMBDA emitted :
          [pNode EXCEPT !.kids =
              kept \o [j \in DOMAIN emitted |-> NewRun(emitted[j], baseRPr)]])

\* String.prototype.split('\n')
RECURSIVE SplitLines(_)
SplitLines(text) ==
    LET hits == {j \in DOMAIN text : text[j] = "\n"}
    IN IF hits = {} THEN <<text>>
       ELSE <<SubSeq(text, 1, Min(hits) - 1)>>
            \o SplitLines(SubSeq(text, Min(hits) + 1, Len(text)))

\* kids with F(child, idx) in place of the idx-th (0-based) child named tag
MapChildren(kids, tag, F(_, _)) ==
    With(kids, LAMBDA ks :
        [j \in DOMAIN ks |->
            IF ks[j].tag = tag
            THEN F(ks[j], Cardinality({h \in 1..(j - 1) : ks[h].tag = tag}))
            ELSE ks[j]])

\* lastT.textContent = (lastT.textContent || '') + '\n' + extra, on the first
\* w:t of the last direct w:r of lastP; nothing when there is no such node
AppendToLastRun(lastP, extra) ==
    LET nRuns == Len(getDirectChildren(lastP, "w:r"))
        InRun(run, idx) ==
            IF idx # nRuns - 1 THEN run
            ELSE LET InT(t, tIdx) ==
                        IF tIdx = 0 THEN [t EXCEPT !.text = @ \o <<"\n">> \o extra] ELSE t
                 IN [run EXCEPT !.kids = MapChildren(@, "w:t", InT)]
    IN [lastP EXCEPT !.kids = MapChildren(@, "w:r", InRun)]

updateCellText(tcNode, newText) ==
    LET nParagraphs == Len(getDirectChildren(tcNode, "w:p"))
    IN With(SplitLines(newText), LAMBDA segments :
          LET InP(p, idx) ==
                With(updateParagraphText(p, IF idx < Len(segments)
                                            THEN segments[idx + 1] ELSE <<>>),
                     LAMBDA updated :
                        IF Len(segments) > nParagraphs /\ idx = nParagraphs - 1
                        THEN AppendToLastRun(updated,
                                JoinLines(SubSeq(segments, nParagraphs + 1, Len(segments))))
                        ELSE updated)
          IN IF nParagraphs = 0 THEN tcNode
             ELSE [tcNode EXCEPT !.kids = MapChildren(@, "w:p", InP)])

\* modifiedRows is the candidate's rows array (of arrays of cells)
updateTableText(tblNode, modifiedRows) ==
    LET InTr(tr, rowIdx) ==
            IF rowIdx >= Len(modifiedRows.a) THEN tr
            ELSE LET modRow == modifiedRows.a[rowIdx + 1]
                     InTc(tc, cellIdx) ==
                        IF cellIdx >= Len(modRow.a) THEN tc
                        ELSE updateCellText(tc, modRow.a[cellIdx + 1].text.t)
                 IN [tr EXCEPT !.kids = MapChildren(@, "w:tc", InTc)]
    IN [tblNode EXCEPT !.kids = MapChildren(@, "w:tr", InTr)]

-----------------------------------------------------------------------------
(* reconstructor: new blocks *)

\* the w:r createBasicParagraph builds for one segment
BasicRun(seg, withCs) ==
    LET props == (IF seg.bold
                  THEN <<El("w:b", <<>>, <<>>)>>
                       \o (IF withCs THEN <<El("w:bCs", <<>>, <<>>)>> ELSE <<>>)
                  ELSE <<>>)
                 \o (IF seg.italic
                     THEN <<El("w:i", <<>>, <<>>)>>
                          \o (IF withCs THEN <<El("w:iCs", <<>>, <<>>)>> ELSE <<>>)
                     ELSE <<>>)
    IN El("w:r", <<>>,
          (IF seg.bold \/ seg.italic THEN <<El("w:rPr", <<>>, props)>> ELSE <<>>)
          \o <<WT(seg.text)>>)

createBasicParagraph(text) ==
    IF text = <<>> THEN El("w:p", <<>>, <<>>)
    ELSE LET NonEmpty(seg) == seg.text # <<>>
         IN With(SelectSeq(parseMarkdown(text), NonEmpty), LAMBDA emitted :
               El("w:p", <<>>, [j \in DOMAIN emitted |-> BasicRun(emitted[j], TRUE)]))

createNewParagraph(text, template) ==
    IF template # NoNode THEN updateParagraphText(removeImages(template), text)
    ELSE createBasicParagraph(text)

\* the decimal digits of a non-negative number, as template literals print it
RECURSIVE NumberChars(_)
NumberChars(n) ==
    LET d == <<"0", "1", "2", "3", "4", "5", "6", "7", "8", "9">>[(n % 10) + 1]
    IN IF n < 10 THEN <<d>> ELSE NumberChars(n \div 10) \o <<d>>

\* templateLevels.reduce((a, b) => |b - level| < |a - level| ? b : a) over the
\* keys in ascending order: the smallest of the closest levels
closestLevel(templateLevels, level) ==
    LET Dist(a) == IF a >= level THEN a - level ELSE level - a
    IN Min({a \in templateLevels : \A b \in templateLevels : Dist(a) <= Dist(b)})

\* the clone of a heading template with its w:pStyle set for the level
PatchStyle(node, level, headingStyleMap) ==
    LET pPr == getFirstChild(node, "w:pPr")
        pStyle == getFirstChild(pPr, "w:pStyle")
        InPPr(p, idx) ==
            IF idx # 0 \/ level \notin DOMAIN headingStyleMap THEN p
            ELSE IF pStyle # NoNode
            THEN LET InStyle(s, sIdx) ==
                        IF sIdx = 0 THEN [s EXCEPT !.val = headingStyleMap[level]] ELSE s
                 IN [p EXCEPT !.kids = MapChildren(@, "w:pStyle", InStyle)]
            ELSE [p EXCEPT !.kids = <<El("w:pStyle", headingStyleMap[level], <<>>)>> \o @]
    IN [node EXCEPT !.kids = MapChildren(@, "w:pPr", InPPr)]

createNewHeading(text, level, headingTemplates, headingStyleMap) ==
    IF level \in DOMAIN headingTemplates
    THEN updateParagraphText(removeImages(headingTemplates[level]), text)
    ELSE IF DOMAIN headingTemplates # {}
    THEN LET closest == closestLevel(DOMAIN headingTemplates, level)
             node == removeImages(headingTemplates[closest])
         IN updateParagraphText(PatchStyle(node, level, headingStyleMap), text)
    ELSE LET styleVal == IF level \in DOMAIN headingStyleMap THEN headingStyleMap[level]
                         ELSE <<"H", "e", "a", "d", "i", "n", "g">> \o NumberChars(level)
         IN With(parseMarkdown(text), LAMBDA segments :
               El("w:p", <<>>,
                  <<El("w:pPr", <<>>, <<El("w:pStyle", styleVal, <<>>)>>)>>
                  \o [j \in DOMAIN segments |-> BasicRun(segments[j], FALSE)]))

createNewTable(rows, template) ==
    LET tblPr == getFirstChild(template, "w:tblPr")
        tblGrid == getFirstChild(template, "w:tblGrid")
        head == IF template # NoNode
                THEN (IF tblPr # NoNode THEN <<tblPr>> ELSE <<>>)
                     \o (IF tblGrid # NoNode THEN <<tblGrid>> ELSE <<>>)
                ELSE <<El("w:tblPr", <<>>, <<El("w:tblW", <<>>, <<>>)>>)>>
        trs == getDirectChildren(template, "w:tr")
        templateRow == IF trs # <<>> THEN trs[1] ELSE NoNode
        tcs == getDirectChildren(templateRow, "w:tc")
        templateCell == IF tcs # <<>> THEN tcs[1] ELSE NoNode
        trPr == getFirstChild(templateRow, "w:trPr")
        tcPr == getFirstChild(templateCell, "w:tcPr")
        NewCell(cell) ==
            El("w:tc", <<>>, (IF tcPr # NoNode THEN <<tcPr>> ELSE <<>>)
                             \o <<createBasicParagraph(cell.text.t)>>)
        NewRow(rowCells) ==
            El("w:tr", <<>>, (IF trPr # NoNode THEN <<trPr>> ELSE <<>>)
                             \o [c \in DOMAIN rowCells.a |-> NewCell(rowCells.a[c])])
    IN El("w:tbl", <<>>, head \o [r \in DOMAIN rows.a |-> NewRow(rows.a[r])])

\* templates.x || templates.paragraph
OrElse(a, b) == IF a # NoNode THEN a ELSE b

createNewBlock(block, templates, headingStyleMap) ==
    CASE block.type = Str("title") ->
           createNewParagraph(block.text.t, OrElse(templates.title, templates.paragraph))
      [] block.type = Str("paragraph") ->
           createNewParagraph(block.text.t, templates.paragraph)
      [] block.type = Str("heading") ->
           createNewHeading(block.text.t, block.level.n, templates.headings, headingStyleMap)
      [] block.type = Str("list_item") ->
           createNewParagraph(block.text.t, OrElse(templates.list_item, templates.paragraph))
      [] block.type = Str("table") ->
           createNewTable(block.rows, templates.table)

-----------------------------------------------------------------------------
(* reconstructor: reconstructDocx *)

\* the level -> styleId entry buildHeadingStyleReverseMap stores for a style
ReverseStyleLevel(style) ==
    LET outlineLvls == getElementsByTagName(style, "w:outlineLvl")
    IN IF outlineLvls # <<>>
       THEN LET level == parseInt(outlineLvls[1].val)
            IN IF ~level.nan THEN level.n + 1 ELSE NoLevel
       ELSE IF IsHeadingName(StyleName(style))
       THEN parseInt(FirstDigits(StyleName(style))).n
       ELSE NoLevel

RECURSIVE buildHeadingStyleReverseMapFrom(_, _)
buildHeadingStyleReverseMapFrom(styles, map) ==
    IF styles = <<>> THEN map
    ELSE LET style == Head(styles)
         IN IF style.type # <<"p", "a", "r", "a", "g", "r", "a", "p", "h">>
               \/ style.styleId = <<>>
               \/ ReverseStyleLevel(style) = NoLevel
            THEN buildHeadingStyleReverseMapFrom(Tail(styles), map)
            ELSE buildHeadingStyleReverseMapFrom(Tail(styles),
                    MapSet(map, ReverseStyleLevel(style), style.styleId))

buildHeadingStyleReverseMap(stylesXml) ==
    buildHeadingStyleReverseMapFrom(stylesXml, EmptyMap)

\* faulty variant: only paragraphs are given an index
BlockNodes_ParagraphsOnly(body) ==
    LET IsBlockNode(n) == n.tag = "w:p" IN SelectSeq(body, IsBlockNode)

\* the w:p and w:tbl element children of the body, in order: the j-th of them
\* gets blockIndex j - 1
BlockNodes(body) ==
    LET IsBlockNode(n) == n.tag \in {"w:p", "w:tbl"} IN SelectSeq(body, IsBlockNode)

\* the other element children of the body
nonBlockNodes(body) ==
    LET IsOther(n) == IsElement(n) /\ n.tag \notin {"w:p", "w:tbl"} IN SelectSeq(body, IsOther)

\* originalBlockNodes.has(id) / .get(id), id being a candidate block's id value
HasOriginalNode(body, id) ==
    id.k = "string" /\ \E j \in DOMAIN BlockNodes(body) : blockId(j - 1) = id.s

OriginalNode(body, id) ==
    BlockNodes(body)[CHOOSE j \in DOMAIN BlockNodes(body) : blockId(j - 1) = id.s]

\* originalBlockNodes as a whole: for every id set, the position among the
\* block nodes of the node stored under it
originalBlockNodes(body) ==
    [id \in {blockId(j - 1) : j \in DOMAIN BlockNodes(body)} |->
        CHOOSE j \in DOMAIN BlockNodes(body) : blockId(j - 1) = id]

\* originalJson.blocks.find(b => b.id === id)
FindOriginalBlock(originalJson, id) ==
    IF ~Truthy(originalJson) THEN Undef
    ELSE LET bs == originalJson.blocks.a
             hits == {j \in DOMAIN bs : bs[j].id = Str(id)}
         IN IF hits = {} THEN Undef ELSE bs[Min(hits)]

NoTemplates ==
    [title |-> NoNode, paragraph |-> NoNode, headings |-> EmptyMap,
     list_item |-> NoNode, table |-> NoNode]

\* the templates after the loop body has run for the block node at index
RecordTemplate(templates, child, index, originalJson) ==
    IF child.tag = "w:tbl"
    THEN (IF templates.table = NoNode THEN [templates EXCEPT !.table = child]
          ELSE templates)
    ELSE With(FindOriginalBlock(originalJson, blockId(index)), LAMBDA origBlock :
    IF ~Truthy(origBlock)
    THEN (IF templates.paragraph = NoNode THEN [templates EXCEPT !.paragraph = child]
          ELSE templates)
    ELSE IF origBlock.type = Str("title") /\ templates.title = NoNode
    THEN [templates EXCEPT !.title = child]
    ELSE IF origBlock.type = Str("heading") /\ Truthy(origBlock.level)
    THEN (IF origBlock.level.n \notin DOMAIN templates.headings
          THEN [templates EXCEPT !.headings = MapSet(@, origBlock.level.n, child)]
          ELSE templates)
    ELSE IF origBlock.type = Str("list_item") /\ templates.list_item = NoNode
    THEN [templates EXCEPT !.list_item = child]
    ELSE IF origBlock.type = Str("paragraph") /\ templates.paragraph = NoNode
    THEN [templates EXCEPT !.paragraph = child]
    ELSE templates)

RECURSIVE TemplatesFrom(_, _, _, _)
TemplatesFrom(nodes, j, originalJson, templates) ==
    IF j > Len(nodes) THEN templates
    ELSE With(RecordTemplate(templates, nodes[j], j - 1, originalJson), LAMBDA recorded :
            TemplatesFrom(nodes, j + 1, originalJson, recorded))

Templates(body, originalJson) == TemplatesFrom(BlockNodes(body), 1, originalJson, NoTemplates)

\* the node the rebuild loop appends for one candidate block
RebuiltNode(block, body, templates, headingStyleMap) ==
    IF HasOriginalNode(body, block.id)
    THEN With(removeImages(OriginalNode(body, block.id)),
              LAMBDA node :
                 IF block.type = Str("table") THEN updateTableText(node, block.rows)
                 ELSE IF block.text # Undef THEN updateParagraphText(node, block.text.t)
                 ELSE node)
    ELSE createNewBlock(block, templates, headingStyleMap)

\* faulty variant: the preserved nodes are put back before the blocks
reconstructDocx_OthersFirst(originalBuffer, modifiedJson, originalJson) ==
    LET body == originalBuffer.body
        blocks == modifiedJson.blocks.a
    IN With(buildHeadingStyleReverseMap(originalBuffer.styles), LAMBDA headingStyleMap :
       With(Templates(body, originalJson), LAMBDA templates :
          Docx(originalBuffer.styles,
               nonBlockNodes(body)
               \o [j \in DOMAIN blocks |->
                      RebuiltNode(blocks[j], body, templates, headingStyleMap)])))

\* the container returned: word/document.xml with the rebuilt body, every
\* other part (word/styles.xml) as it was
reconstructDocx(originalBuffer, modifiedJson, originalJson) ==
    LET body == originalBuffer.body
        blocks == modifiedJson.blocks.a
    IN With(buildHeadingStyleReverseMap(originalBuffer.styles), LAMBDA headingStyleMap :
       With(Templates(body, originalJson), LAMBDA templates :
          Docx(originalBuffer.styles,
               [j \in DOMAIN blocks |->
                   RebuiltNode(blocks[j], body, templates, headingStyleMap)]
               \o nonBlockNodes(body))))

-----------------------------------------------------------------------------
(* Inputs of validateModifiedJson *)

MaxBlocks == 2      \* longest blocks array of a candidate

\* an original Document as extractDocx returns it: a heading followed by a
\* table of two rows, the first of two cells and the second of one
OrigRows ==
    Arr(<<Arr(<<Cell(Str("cell_0001_0_0"), Txt(<<"a">>)),
                Cell(Str("cell_0001_0_1"), Txt(<<"b">>))>>),
          Arr(<<Cell(Str("cell_0001_1_0"), Txt(<<>>))>>)>>)

OrigHeading == HeadingBlock("block_0000", 1, Txt(<<"x">>))
OrigTable == TableBlock("block_0001", OrigRows)

WellFormedOriginal == Document(Metadata, Arr(<<OrigHeading, OrigTable>>))

\* values a caller can pass as original that no extraction produced
MalformedOriginals ==
    { Null,
      Document(Metadata, Undef),
      Document(Metadata, Arr(<<OrigHeading, Null>>)),
      Document(Metadata, Arr(<<OrigHeading,
                               Block(Str("block_0001"), Str("table"), Undef, Undef, Undef)>>)) }

\* rows values of candidate tables
RowsPool ==
    { OrigRows,
      \* a third row added, the first row shortened
      Arr(<<Arr(<<Cell(Str("cell_0001_0_0"), Txt(<<"a">>))>>),
            Arr(<<Cell(Str("cell_0001_1_0"), Txt(<<>>))>>),
            Arr(<<Cell(Str("cell_0001_2_0"), Txt(<<"c">>))>>)>>),
      \* same row count, first row shortened
      Arr(<<Arr(<<Cell(Str("cell_0001_0_0"), Txt(<<"a">>))>>),
            Arr(<<Cell(Str("cell_0001_1_0"), Txt(<<>>))>>)>>),
      \* a null row, a cell that is not an object, a cell without id and text
      Arr(<<Null, Arr(<<Num(5), Cell(Undef, Undef)>>)>>),
      \* a cell id equal to a block id and a repeated cell id
      Arr(<<Arr(<<Cell(Str("block_0000"), Txt(<<"a">>)),
                  Cell(Str("cell_9"), Txt(<<"b">>))>>),
            Arr(<<Cell(Str("cell_9"), Txt(<<>>))>>)>>),
      \* a row that is a number, the other row as in the original
      Arr(<<Num(5), Arr(<<Cell(Str("cell_0001_1_0"), Txt(<<>>))>>)>>),
      Arr(<<>>),
      Undef }

BlockPool ==
    { Block(Str(id), Str(type), level, Txt(<<"x">>), Undef) :
        id \in {"block_0000", "block_0007"},
        type \in {"heading", "paragraph", "quote"},
        level \in {Undef, Num(1), Num(2)} }
    \cup
    { Block(Str(id), Str("table"), Undef, Undef, rows) :
        id \in {"block_0001", "block_0007"}, rows \in RowsPool }
    \cup
    { Null, Num(5), Arr(<<>>),
      Block(Undef, Str("paragraph"), Undef, Txt(<<"x">>), Undef),
      Block(Str(""), Str("paragraph"), Undef, Txt(<<"x">>), Undef),
      Block(Str("block_0008"), Undef, Undef, Txt(<<"x">>), Undef),
      Block(Undef, Str("quote"), Undef, Undef, Undef),
      Block(Str("block_0008"), Str("title"), Undef, Undef, Undef),
      Block(Str("block_0008"), Str("list_item"), Num(0), Txt(<<"x">>), Undef),
      Block(Str("block_0008"), Str("list_item"), Num(1), Txt(<<"x">>), Undef),
      Block(Str("block_0008"), Str("heading"), Str("1"), Undef, Undef),
      Block(Str("block_0001"), Str("paragraph"), Undef, Txt(<<"x">>), Undef),
      Block(Str("block_0000"), Str("table"), Undef, Undef, OrigRows) }

RECURSIVE SeqsUpTo(_, _)
SeqsUpTo(S, n) ==
    IF n = 0 THEN {<<>>}
    ELSE LET shorter == SeqsUpTo(S, n - 1)
         IN shorter \cup {Append(s, x) : s \in {t \in shorter : Len(t) = n - 1}, x \in S}

-----------------------------------------------------------------------------
(* Inputs of the codec: .docx containers *)

MaxBody == 2        \* most children of w:body in an input document

Bold == El("w:b", <<>>, <<>>)
Italic == El("w:i", <<>>, <<>>)
NotBold == El("w:b", <<"0">>, <<>>)
Size == El("w:sz", <<"2", "4">>, <<>>)
Drawing == El("w:drawing", <<>>, <<>>)

Run(props, kids) ==
    El("w:r", <<>>, (IF props = <<>> THEN <<>> ELSE <<El("w:rPr", <<>>, props)>>) \o kids)

Para(pPrKids, inline) ==
    El("w:p", <<>>,
       (IF pPrKids = <<>> THEN <<>> ELSE <<El("w:pPr", <<>>, pPrKids)>>) \o inline)

PStyle(id) == El("w:pStyle", id, <<>>)
NumPr(ilvl) == El("w:numPr", <<>>, <<El("w:ilvl", ilvl, <<>>), El("w:numId", <<"1">>, <<>>)>>)

\* word/styles.xml: a heading style with an outline level, heading styles
\* known by their names only, a character style and a plain paragraph style
ParagraphType == <<"p", "a", "r", "a", "g", "r", "a", "p", "h">>

StylesXml ==
    << Style(ParagraphType, <<"H", "1">>,
             <<El("w:name", <<"h", "e", "a", "d", "i", "n", "g", " ", "1">>, <<>>),
               El("w:pPr", <<>>, <<El("w:outlineLvl", <<"0">>, <<>>)>>)>>),
       Style(ParagraphType, <<"H", "2">>,
             <<El("w:name", <<"H", "e", "a", "d", "i", "n", "g", " ", "2">>, <<>>)>>),
       Style(ParagraphType, <<"H", "0">>,
             <<El("w:name", <<"H", "e", "a", "d", "i", "n", "g", " ", "0">>, <<>>)>>),
       Style(<<"c", "h", "a", "r">>, <<"C", "3">>,
             <<El("w:name", <<"h", "e", "a", "d", "i", "n", "g", " ", "3">>, <<>>)>>),
       Style(ParagraphType, <<"N">>,
             <<El("w:name", <<"N", "o", "r", "m", "a", "l">>, <<>>)>>) >>

ParagraphPool ==
    { \* plain text
      Para(<<>>, <<Run(<<Size>>, <<WT(<<"a", " ", "b">>)>>)>>),
      \* heading styles: by outline level, by name, and the style named Heading 0
      Para(<<PStyle(<<"H", "1">>)>>, <<Run(<<>>, <<WT(<<"x">>)>>)>>),
      Para(<<PStyle(<<"H", "2">>)>>, <<Run(<<Bold>>, <<WT(<<"x">>)>>)>>),
      Para(<<PStyle(<<"H", "0">>)>>, <<Run(<<>>, <<WT(<<"x">>)>>)>>),
      \* an outline level on the paragraph itself
      Para(<<PStyle(<<"N">>), El("w:outlineLvl", <<"1">>, <<>>)>>,
           <<Run(<<>>, <<WT(<<"x">>)>>)>>),
      \* numbered text, the second one in a list as well
      Para(<<>>, <<Run(<<>>, <<WT(<<"1", ".", " ", "O">>)>>)>>),
      Para(<<NumPr(<<"0">>)>>, <<Run(<<>>, <<WT(<<"2", ".", "1", " ", "-", " ", "C">>)>>)>>),
      \* list items
      Para(<<NumPr(<<"1">>)>>, <<Run(<<>>, <<WT(<<"a">>)>>)>>),
      \* empty, white space only, image only
      Para(<<>>, <<>>),
      Para(<<>>, <<Run(<<>>, <<WT(<<" ">>)>>)>>),
      Para(<<>>, <<Run(<<>>, <<Drawing>>)>>),
      \* an image next to text
      Para(<<>>, <<Run(<<>>, <<Drawing>>), Run(<<>>, <<WT(<<"a">>)>>)>>),
      \* bold, italic and bold+italic runs separated by plain blanks
      Para(<<>>, <<Run(<<Bold>>, <<WT(<<"a">>)>>), Run(<<>>, <<WT(<<" ">>)>>),
                   Run(<<Italic>>, <<WT(<<"b">>)>>), Run(<<>>, <<WT(<<" ">>)>>),
                   Run(<<Bold, Italic>>, <<WT(<<"c">>)>>)>>),
      \* adjacent runs of different formatting, one switched off by w:val="0"
      Para(<<>>, <<Run(<<Bold>>, <<WT(<<"a">>)>>), Run(<<Bold, Italic>>, <<WT(<<"b">>)>>),
                   Run(<<NotBold, Italic>>, <<WT(<<"c">>)>>)>>),
      \* a tab and a line break inside a run, text inside a hyperlink
      Para(<<>>, <<Run(<<Bold>>, <<WT(<<"a">>), El("w:tab", <<>>, <<>>), WT(<<"b">>),
                                  El("w:br", <<>>, <<>>), WT(<<"c">>)>>),
                   El("w:hyperlink", <<>>, <<Run(<<>>, <<WT(<<"d">>)>>)>>)>>),
      \* text that is only inside a tracked insertion
      Para(<<>>, <<El("w:ins", <<>>, <<Run(<<>>, <<WT(<<"a">>)>>)>>)>>),
      \* an empty run between two italic runs
      Para(<<>>, <<Run(<<Italic>>, <<WT(<<"a">>)>>), Run(<<>>, <<WT(<<>>)>>),
                   Run(<<Italic>>, <<WT(<<"b">>)>>)>>),
      \* asterisks typed in the text
      Para(<<>>, <<Run(<<>>, <<WT(<<"2", "*", "3", "*", "4">>)>>)>>) }

TextCell(paragraphs) == El("w:tc", <<>>, <<El("w:tcPr", <<>>, <<>>)>> \o paragraphs)

TablePool ==
    { \* two rows, the second with a cell of two paragraphs
      El("w:tbl", <<>>,
         <<El("w:tblPr", <<>>, <<>>),
           El("w:tr", <<>>,
              <<TextCell(<<Para(<<>>, <<Run(<<>>, <<WT(<<"a">>)>>)>>)>>),
                TextCell(<<Para(<<>>, <<>>)>>)>>),
           El("w:tr", <<>>,
              <<TextCell(<<Para(<<>>, <<Run(<<Bold>>, <<WT(<<"b">>)>>)>>),
                           Para(<<>>, <<Run(<<>>, <<WT(<<"c">>)>>)>>)>>)>>)>>),
      \* one cell with a picture in a tracked insertion next to its text; its
      \* properties hold a markup-compatibility alternative
      El("w:tbl", <<>>,
         <<El("w:tr", <<>>,
              <<El("w:tc", <<>>,
                   <<El("w:tcPr", <<>>, <<El("mc:AlternateContent", <<>>, <<>>)>>),
                     Para(<<>>, <<Run(<<>>, <<WT(<<"a">>)>>),
                                  El("w:ins", <<>>,
                                     <<Run(<<>>, <<El("w:pict", <<>>, <<>>)>>)>>)>>)>>)>>)>>),
      \* one cell whose paragraph is a bold line, a line break and a plain line
      El("w:tbl", <<>>,
         <<El("w:tr", <<>>,
              <<TextCell(<<Para(<<>>, <<Run(<<Bold>>, <<WT(<<"a">>)>>),
                                        Run(<<>>, <<El("w:br", <<>>, <<>>), WT(<<"b">>)>>)>>)>>)>>)>>) }

BodyPool ==
    ParagraphPool \cup TablePool \cup {El("w:sectPr", <<>>, <<>>), TextNode}

Docxs == { Docx(StylesXml, body) : body \in SeqsUpTo(BodyPool, MaxBody) }

Candidates ==
    { Null, Undef, Str("texto livre"), Num(5), Arr(<<>>),
      Document(Undef, Undef), Document(Metadata, Undef),
      Document(Metadata, Null), Document(Undef, Str("blocks")) }
    \cup
    { Document(meta, Arr(bs)) :
        meta \in {Metadata, Undef, Str("meta")}, bs \in SeqsUpTo(BlockPool, MaxBlocks) }

\* candidates tried against the malformed originals
FewCandidates ==
    { Null, Document(Undef, Undef), Document(Metadata, Arr(<<>>)),
      Document(Metadata, Arr(<<OrigHeading, OrigTable>>)),
      Document(Metadata, Arr(<<Block(Str("block_0001"), Str("paragraph"), Undef,
                                     Txt(<<"x">>), Undef)>>)) }

NoResult == [threw |-> FALSE, valid |-> FALSE, errors |-> <<>>]
NoDocx == Docx(<<>>, <<>>)
NoRequest == [route |-> "none"]

\* nothing classified
ClassifyIdle ==
    /\ clNode = NoNode
    /\ clResult = NoNode
    /\ clLevel = NoLevel

\* const state = { documentId: null, originalJson: null, validated: false }
NoValidation == [documentId |-> Null, text |-> "", valid |-> FALSE]

ClientIdle ==
    /\ state = [documentId |-> Null, validated |-> FALSE]
    /\ jsonModified = ""
    /\ fetches = {}
    /\ lastValidation = NoValidation

NoOutcome == [threw |-> FALSE, value |-> "none", message |-> <<>>]

CallIdle ==
    /\ provider = ""
    /\ requests = <<>>
    /\ outcome = NoOutcome

\* nothing formatted or parsed
MarkdownIdle ==
    /\ mdParagraph = NoNode
    /\ mdText = <<>>
    /\ mdSegments = <<>>

\* the server at start-up: nothing stored, nothing in flight
ServerIdle ==
    /\ documentStore = EmptyMap
    /\ clock = 0
    /\ cleanupDue = FALSE
    /\ pending = NoRequest
    /\ response = NoRequest
    /\ nextId = 0

CodecIdle ==
    /\ docx = NoDocx
    /\ output = NoDocx
    /\ reextracted = Null

-----------------------------------------------------------------------------
(* The Validator alone, called on arbitrary candidate and original values *)

InitValidator ==
    /\ \/ original = WellFormedOriginal /\ modified \in Candidates
       \/ original \in MalformedOriginals /\ modified \in FewCandidates
    /\ result = NoResult
    /\ pc = "call"
    /\ CodecIdle
    /\ ServerIdle
    /\ MarkdownIdle
    /\ ClassifyIdle
    /\ ClientIdle
    /\ CallIdle

Validate ==
    /\ pc = "call"
    /\ result' = validateModifiedJson(modified, original)
    /\ pc' = "done"
    /\ UNCHANGED <<modified, original, codecVars, serverVars, markdownVars, classifyVars,
                   clientVars, aiVars>>

NextValidator == Validate

SpecValidator == InitValidator /\ [][NextValidator]_vars

-----------------------------------------------------------------------------
(* The codec end to end: a container is extracted, a candidate is validated *)
(* against the extraction, an accepted candidate is reconstructed, and the  *)
(* container that comes out is extracted again                              *)

\* the candidates tried: the extraction itself, the extraction without its
\* blocks, and the extraction without its metadata
CandidatesOf(doc) ==
    {doc, [doc EXCEPT !.blocks = Arr(<<>>)], [doc EXCEPT !.metadata = Undef]}

\* blocks a candidate adds: under an id no node of the body has, and under
\* the id of the first node of the body
NewBlocks ==
    { ParagraphBlock("block_0009", Txt(<<"*", "*", "n", "*", "*", " ", "m">>)),
      TitleBlock("block_0009", Txt(<<"n">>)),
      HeadingBlock("block_0009", 1, Txt(<<"n">>)),
      HeadingBlock("block_0009", 2, Txt(<<"n">>)),
      HeadingBlock("block_0009", 3, Txt(<<"n">>)),
      ListItemBlock("block_0009", 1, Txt(<<"n">>)),
      TableBlock("block_0009",
                 Arr(<<Arr(<<Cell(Str("cell_0009_0_0"), Txt(<<"n">>)),
                             Cell(Str("cell_0009_0_1"), Txt(<<>>))>>)>>)),
      ParagraphBlock("block_0000", Txt(<<"z">>)),
      TableBlock("block_0000",
                 Arr(<<Arr(<<Cell(Str("cell_0000_0_0"), Txt(<<"z">>))>>)>>)) }

\* texts a candidate gives to the cells of its tables: one line, three
\* lines, an empty line before a line, and an empty line between two
NewCellTexts ==
    { <<"x">>, <<"x", "\n", "y", "\n", "z">>, <<"\n", "y">>, <<"x", "\n", "\n", "z">> }

\* the Document with text as the text of every cell of every table
RewriteCells(doc, text) ==
    LET InCell(cell) == [cell EXCEPT !.text = Txt(text)]
        InRow(row) == Arr([c \in DOMAIN row.a |-> InCell(row.a[c])])
        InBlock(b) == IF b.type = Str("table")
                      THEN [b EXCEPT !.rows = Arr([r \in DOMAIN b.rows.a |-> InRow(b.rows.a[r])])]
                      ELSE b
    IN [doc EXCEPT !.blocks = Arr([j \in DOMAIN doc.blocks.a |-> InBlock(doc.blocks.a[j])])]

\* the candidates the editing step sends for an extracted Document: those of
\* CandidatesOf, the Document with one new block in front, the Document
\* with its blocks in reverse order, and the Document with its cells rewritten
EditsOf(doc) ==
    CandidatesOf(doc)
    \cup { RewriteCells(doc, text) : text \in NewCellTexts }
    \cup { [doc EXCEPT !.blocks = Arr(<<nb>> \o doc.blocks.a)] : nb \in NewBlocks }
    \cup { [doc EXCEPT !.blocks =
                Arr([j \in DOMAIN doc.blocks.a |->
                        doc.blocks.a[Len(doc.blocks.a) + 1 - j]])] }

InitCodec ==
    /\ docx \in Docxs
    /\ output = NoDocx
    /\ reextracted = Null
    /\ modified = Null
    /\ original = Null
    /\ result = NoResult
    /\ pc = "upload"
    /\ ServerIdle
    /\ MarkdownIdle
    /\ ClassifyIdle
    /\ ClientIdle
    /\ CallIdle

Extract ==
    /\ pc = "upload"
    /\ original' = extractDocx(docx, <<>>, 0)
    /\ pc' = "extracted"
    /\ UNCHANGED <<modified, result, codecVars, serverVars, markdownVars, classifyVars,
                   clientVars, aiVars>>

Edit ==
    /\ pc = "extracted"
    /\ modified' \in EditsOf(original)
    /\ pc' = "call"
    /\ UNCHANGED <<original, result, codecVars, serverVars, markdownVars, classifyVars,
                   clientVars, aiVars>>

Reconstruct ==
    /\ pc = "done"
    /\ result.valid
    /\ output' = reconstructDocx(docx, modified, original)
    /\ pc' = "reconstructed"
    /\ UNCHANGED <<validatorVars, docx, reextracted, serverVars, markdownVars, classifyVars,
                   clientVars, aiVars>>

ReExtract ==
    /\ pc = "reconstructed"
    /\ reextracted' = extractDocx(output, <<>>, 0)
    /\ pc' = "end"
    /\ UNCHANGED <<validatorVars, docx, output, serverVars, markdownVars, classifyVars,
                   clientVars, aiVars>>

NextCodec == Extract \/ Edit \/ Validate \/ Reconstruct \/ ReExtract

SpecCodec == InitCodec /\ [][NextCodec]_vars

-----------------------------------------------------------------------------
(* index.js: the Express server. One action per route handler, one for the  *)
(* completion of an awaited reconstructDocx, one for the passing of time    *)
(* and one for the cleanup timer's callback                                 *)

DOCUMENT_TTL == 3600000         \* 60 * 60 * 1000 ms
CleanupInterval == 300000       \* 5 * 60 * 1000 ms, the period of setInterval

MaxUploads == 1     \* documents stored over a run
MaxTicks == 13      \* cleanup intervals the clock runs through

\* the n-th value crypto.randomUUID() returns; DocId(0) is an id never drawn
DocId(n) == Str("uuid-" \o ToString(n))

DotDocx == <<".", "d", "o", "c", "x">>

\* /\.docx$/i matches fileName
EndsInDocx(fileName) ==
    /\ Len(fileName) >= 5
    /\ [j \in 1..5 |-> LowerCase(fileName[Len(fileName) - 5 + j])] = DotDocx

\* fileFilter: path.extname(file.originalname).toLowerCase() === '.docx', for
\* names without a directory part (a name that is only an extension has none)
fileFilter(originalname) == Len(originalname) > 5 /\ EndsInDocx(originalname)

\* fileName.replace(/\.docx$/i, '_modificado.docx')
newFileName(fileName) ==
    IF EndsInDocx(fileName)
    THEN SubSeq(fileName, 1, Len(fileName) - 5)
         \o <<"_", "m", "o", "d", "i", "f", "i", "c", "a", "d", "o">> \o DotDocx
    ELSE fileName

\* req.file of an upload, absent when the form holds no file
NoFile == [present |-> FALSE, originalname |-> <<>>, buffer |-> NoDocx]
File(originalname, buffer) ==
    [present |-> TRUE, originalname |-> originalname, buffer |-> buffer]

\* the body of a validate or reconstruct request
Body(documentId, modifiedJson) == [documentId |-> documentId, modifiedJson |-> modifiedJson]

\* res.status(status).json({ error }) and the like, with the request answered
Answer(route, to, status, body) ==
    [route |-> route, to |-> to, status |-> status, body |-> body]

\* the documents uploaded: a heading and a table; a paragraph in the style
\* named Heading 0
UploadedFiles ==
    { NoFile,
      File(<<"n", "o", "t", "e", "s", ".", "t", "x", "t">>, NoDocx),
      File(<<"a", ".", "d", "o", "c", "x">>,
           Docx(StylesXml,
                <<Para(<<PStyle(<<"H", "1">>)>>, <<Run(<<>>, <<WT(<<"x">>)>>)>>),
                  El("w:tbl", <<>>,
                     <<El("w:tr", <<>>,
                          <<TextCell(<<Para(<<>>, <<Run(<<>>, <<WT(<<"a">>)>>)>>)>>)>>)>>),
                  El("w:sectPr", <<>>, <<>>)>>)),
      File(<<"b", ".", "D", "O", "C", "X">>,
           Docx(StylesXml,
                <<Para(<<PStyle(<<"H", "0">>)>>, <<Run(<<>>, <<WT(<<"x">>)>>)>>)>>)) }

\* the ids a request may carry: none, one never drawn, and every id drawn
RequestIds == {Undef} \cup {DocId(n) : n \in 0..nextId}

\* the candidates a request may carry for an id: none, free text, and, for a
\* stored document, what CandidatesOf makes of its extraction
RequestCandidates(documentId) ==
    {Undef, Txt(<<"x">>)}
    \cup (IF documentId \in DOMAIN documentStore
          THEN CandidatesOf(documentStore[documentId].originalJson)
          ELSE {Document(Metadata, Arr(<<>>))})

InitServer ==
    /\ ServerIdle
    /\ CodecIdle
    /\ modified = Null
    /\ original = Null
    /\ result = NoResult
    /\ pc = "listening"
    /\ MarkdownIdle
    /\ ClassifyIdle
    /\ ClientIdle
    /\ CallIdle

\* POST /api/extract
PostExtract ==
    \E file \in UploadedFiles :
        /\ IF ~file.present
           THEN /\ response' = Answer("extract", file, 400, [error |-> "Nenhum arquivo enviado."])
                /\ UNCHANGED <<documentStore, nextId, clientVars, aiVars>>
           ELSE IF ~fileFilter(file.originalname)
           THEN /\ response' = Answer("extract", file, 400,
                                     [error |-> "Apenas arquivos .docx sao aceitos."])
                /\ UNCHANGED <<documentStore, nextId, clientVars, aiVars>>
           ELSE /\ nextId < MaxUploads
                /\ LET json == extractDocx(file.buffer, file.originalname, clock)
                       documentId == DocId(nextId + 1)
                   IN /\ documentStore' =
                            MapSet(documentStore, documentId,
                                   [buffer |-> file.buffer, originalJson |-> json,
                                    fileName |-> file.originalname, createdAt |-> clock])
                      /\ response' = Answer("extract", file, 200,
                                            [documentId |-> documentId, data |-> json])
                /\ nextId' = nextId + 1
        /\ UNCHANGED <<clock, cleanupDue, pending, pc, validatorVars, codecVars, markdownVars, classifyVars,
                       clientVars, aiVars>>

\* POST /api/validate
PostValidate ==
    \E documentId \in RequestIds : \E modifiedJson \in RequestCandidates(documentId) :
        LET to == Body(documentId, modifiedJson) IN
        /\ response' =
              IF ~Truthy(documentId) \/ ~Truthy(modifiedJson)
              THEN Answer("validate", to, 400, [error |-> "documentId e modifiedJson sao obrigatorios."])
              ELSE IF documentId \notin DOMAIN documentStore
              THEN Answer("validate", to, 404, [error |-> "Documento nao encontrado."])
              ELSE With(validateModifiedJson(modifiedJson,
                                             documentStore[documentId].originalJson),
                        LAMBDA validation :
                           IF validation.threw
                           THEN Answer("validate", to, 500, [error |-> "Erro ao validar o JSON."])
                           ELSE Answer("validate", to, 200,
                                       [valid |-> validation.valid,
                                        errors |-> validation.errors]))
        /\ UNCHANGED <<documentStore, clock, cleanupDue, pending, nextId, pc,
                       validatorVars, codecVars, markdownVars, classifyVars, clientVars, aiVars>>

\* the handler with the check of validation.valid left out
PostReconstruct_Ungated ==
    /\ pending = NoRequest
    /\ \E documentId \in RequestIds : \E modifiedJson \in RequestCandidates(documentId) :
        LET to == Body(documentId, modifiedJson) IN
        IF ~Truthy(documentId) \/ ~Truthy(modifiedJson)
        THEN /\ response' = Answer("reconstruct", to, 400,
                                  [error |-> "documentId e modifiedJson sao obrigatorios."])
             /\ UNCHANGED pending
        ELSE IF documentId \notin DOMAIN documentStore
        THEN /\ response' = Answer("reconstruct", to, 404, [error |-> "Documento nao encontrado."])
             /\ UNCHANGED pending
        ELSE LET doc == documentStore[documentId]
                 validation == validateModifiedJson(modifiedJson, doc.originalJson)
             IN IF validation.threw
                THEN /\ response' = Answer("reconstruct", to, 500,
                                          [error |-> "Erro ao reconstruir o documento."])
                     /\ UNCHANGED pending
                ELSE /\ pending' = [route |-> "reconstruct", to |-> to, doc |-> doc]
                     /\ UNCHANGED response
    /\ UNCHANGED <<documentStore, clock, cleanupDue, nextId, pc, validatorVars, codecVars, markdownVars, classifyVars,
                   clientVars, aiVars>>

\* POST /api/reconstruct, up to the await of reconstructDocx; the model lets
\* one reconstruction be in flight at a time
PostReconstruct ==
    /\ pending = NoRequest
    /\ \E documentId \in RequestIds : \E modifiedJson \in RequestCandidates(documentId) :
        LET to == Body(documentId, modifiedJson) IN
        IF ~Truthy(documentId) \/ ~Truthy(modifiedJson)
        THEN /\ response' = Answer("reconstruct", to, 400,
                                  [error |-> "documentId e modifiedJson sao obrigatorios."])
             /\ UNCHANGED pending
        ELSE IF documentId \notin DOMAIN documentStore
        THEN /\ response' = Answer("reconstruct", to, 404, [error |-> "Documento nao encontrado."])
             /\ UNCHANGED pending
        ELSE LET doc == documentStore[documentId]
                 validation == validateModifiedJson(modifiedJson, doc.originalJson)
             IN IF validation.threw
                THEN /\ response' = Answer("reconstruct", to, 500,
                                          [error |-> "Erro ao reconstruir o documento."])
                     /\ UNCHANGED pending
                ELSE IF ~validation.valid
                THEN /\ response' = Answer("reconstruct", to, 400,
                                          [error |-> "JSON invalido.",
                                           validationErrors |-> validation.errors])
                     /\ UNCHANGED pending
                ELSE /\ pending' = [route |-> "reconstruct", to |-> to, doc |-> doc]
                     /\ UNCHANGED response
    /\ UNCHANGED <<documentStore, clock, cleanupDue, nextId, pc, validatorVars, codecVars, markdownVars, classifyVars,
                   clientVars, aiVars>>

\* reconstructDocx resolves and the document is sent
ReconstructDone ==
    /\ pending # NoRequest
    /\ response' =
          Answer("reconstruct", pending.to, 200,
                 [fileName |-> newFileName(pending.doc.fileName),
                  buffer |-> reconstructDocx(pending.doc.buffer, pending.to.modifiedJson,
                                             pending.doc.originalJson)])
    /\ pending' = NoRequest
    /\ UNCHANGED <<documentStore, clock, cleanupDue, nextId, pc, validatorVars, codecVars, markdownVars, classifyVars,
                   clientVars, aiVars>>

\* what the awaited callAI does: it rejects, or resolves to what JSON.parse
\* made of the provider's reply, here null or the Document it was given
callAI(originalJson) ==
    { [threw |-> TRUE, json |-> Undef],
      [threw |-> FALSE, json |-> Null],
      [threw |-> FALSE, json |-> originalJson] }

\* the userText and apiKey a transform request may carry
TransformFields ==
    { <<Txt(<<"x">>), Str("k")>>, <<Undef, Str("k")>>, <<Txt(<<"x">>), Undef>> }

\* POST /api/transform; modifiedJson.blocks?.length raises on null
PostTransform ==
    /\ \E documentId \in RequestIds : \E fields \in TransformFields :
        LET to == [documentId |-> documentId, userText |-> fields[1], apiKey |-> fields[2]] IN
        IF ~Truthy(documentId) \/ ~Truthy(to.userText) \/ ~Truthy(to.apiKey)
        THEN response' = Answer("transform", to, 400,
                                [error |-> "documentId, userText e apiKey sao obrigatorios."])
        ELSE IF documentId \notin DOMAIN documentStore
        THEN response' = Answer("transform", to, 404,
                                [error |-> "Documento nao encontrado. Faca upload novamente."])
        ELSE \E reply \in callAI(documentStore[documentId].originalJson) :
                response' =
                   IF reply.threw \/ reply.json = Null
                   THEN Answer("transform", to, 500, [error |-> "Erro ao transformar com IA."])
                   ELSE Answer("transform", to, 200,
                               [success |-> TRUE, modifiedJson |-> reply.json])
    /\ UNCHANGED <<documentStore, clock, cleanupDue, pending, nextId, pc,
                   validatorVars, codecVars, markdownVars, classifyVars, clientVars, aiVars>>

\* the instants the model looks at lie half a period of the cleanup timer apart
TimeStep == CleanupInterval \div 2

\* time passes; when a whole period has passed the callback of the cleanup
\* timer is queued
Tick ==
    /\ ~cleanupDue
    /\ clock < MaxTicks * CleanupInterval
    /\ clock' = clock + TimeStep
    /\ cleanupDue' = (clock' % CleanupInterval = 0)
    /\ UNCHANGED <<documentStore, pending, response, nextId, pc, validatorVars, codecVars, markdownVars, classifyVars,
                   clientVars, aiVars>>

\* the callback of setInterval
Cleanup ==
    /\ cleanupDue
    /\ documentStore' =
          [id \in {d \in DOMAIN documentStore :
                      ~(clock - documentStore[d].createdAt > DOCUMENT_TTL)}
             |-> documentStore[id]]
    /\ cleanupDue' = FALSE
    /\ UNCHANGED <<clock, pending, response, nextId, pc, validatorVars, codecVars, markdownVars, classifyVars,
                   clientVars, aiVars>>

NextServer ==
    \/ PostExtract \/ PostValidate \/ PostReconstruct \/ ReconstructDone
    \/ PostTransform \/ Tick \/ Cleanup

SpecServer == InitServer /\ [][NextServer]_vars

-----------------------------------------------------------------------------
(* The markers of bold and italic text: getFormattedText writes them and    *)
(* parseMarkdown reads them. A paragraph is formatted, or a text is typed,  *)
(* and the text is parsed                                                   *)

MaxRuns == 3        \* most runs of a paragraph drawn freely from RunPool

\* contents of runs
Contents == {<<"a">>, <<"b", "c">>}

\* contents of marked parts of typed texts: also with a blank or a line break
\* inside
TypedContents == Contents \cup {<<"x", " ", "y">>, <<"x", "\n", "y">>}

RunProps == {<<>>, <<Bold>>, <<Italic>>, <<Bold, Italic>>}

Blank == Run(<<>>, <<WT(<<" ">>)>>)

RunPool ==
    { Run(props, <<WT(t)>>) : props \in RunProps, t \in Contents }
    \cup { Blank,
           \* bold switched off
           Run(<<NotBold, Italic>>, <<WT(<<"a">>)>>),
           \* a line break inside a bold run
           Run(<<Bold>>, <<WT(<<"a">>), El("w:br", <<>>, <<>>), WT(<<"b">>)>>) }

\* a bold, an italic and a bold+italic run with plain blanks between them
SpacedParagraph(a, b, c) ==
    Para(<<>>, <<Run(<<Bold>>, <<WT(a)>>), Blank, Run(<<Italic>>, <<WT(b)>>), Blank,
                 Run(<<Bold, Italic>>, <<WT(c)>>)>>)

MarkdownParagraphs ==
    { Para(<<>>, runs) : runs \in SeqsUpTo(RunPool, MaxRuns) }
    \cup { SpacedParagraph(a, b, c) : a, b, c \in Contents }

Stars(m) == [j \in 1..m |-> "*"]

\* the text **a** *b* ***c***
SpacedText(a, b, c) ==
    Stars(2) \o a \o Stars(2) \o <<" ">> \o Stars(1) \o b \o Stars(1) \o <<" ">>
    \o Stars(3) \o c \o Stars(3)

MarkdownTexts ==
    { SpacedText(a, b, c) : a, b, c \in TypedContents }
    \cup { <<>>, <<"a", "b">>, <<"*", "a">>, <<"*", "*">>, <<"2", "*", "3", "*", "4">>,
           <<"*", "*", "a", "*">>, <<"*", "*", "*", "a", "*", "*", " ", "b", "*">>,
           <<"a", " ", "*", "b", "*">>, <<"*", "*", "*", "*">> }

InitMarkdown ==
    /\ mdParagraph \in MarkdownParagraphs \cup {NoNode}
    /\ mdText = <<>>
    /\ mdSegments = <<>>
    /\ pc = "input"
    /\ ClassifyIdle
    /\ ClientIdle
    /\ CallIdle
    /\ modified = Null
    /\ original = Null
    /\ result = NoResult
    /\ CodecIdle
    /\ ServerIdle

\* getFormattedText(pNode)
Format ==
    /\ pc = "input"
    /\ mdParagraph # NoNode
    /\ mdText' = getFormattedText(mdParagraph)
    /\ pc' = "text"
    /\ UNCHANGED <<mdParagraph, mdSegments, validatorVars, codecVars, serverVars, classifyVars,
                   clientVars, aiVars>>

\* a text arrives in a candidate instead
Type ==
    /\ pc = "input"
    /\ mdParagraph = NoNode
    /\ mdText' \in MarkdownTexts
    /\ pc' = "text"
    /\ UNCHANGED <<mdParagraph, mdSegments, validatorVars, codecVars, serverVars, classifyVars,
                   clientVars, aiVars>>

\* parseMarkdown(text)
Parse ==
    /\ pc = "text"
    /\ mdSegments' = parseMarkdown(mdText)
    /\ pc' = "parsed"
    /\ UNCHANGED <<mdParagraph, mdText, validatorVars, codecVars, serverVars, classifyVars,
                   clientVars, aiVars>>

NextMarkdown == Format \/ Type \/ Parse

SpecMarkdown == InitMarkdown /\ [][NextMarkdown]_vars

-----------------------------------------------------------------------------
(* extractDocx called twice on the same upload, as two POST /api/extract of *)
(* the same file do, with time passing between the calls                    *)

MaxElapse == 2      \* time steps that pass between the two calls

UploadName == <<"a", ".", "d", "o", "c", "x">>

InitRepeat ==
    /\ docx \in Docxs
    /\ output = NoDocx
    /\ reextracted = Null
    /\ modified = Null
    /\ original = Null
    /\ result = NoResult
    /\ pc = "first"
    /\ ServerIdle
    /\ MarkdownIdle
    /\ ClassifyIdle
    /\ ClientIdle
    /\ CallIdle

ExtractFirst ==
    /\ pc = "first"
    /\ original' = extractDocx(docx, UploadName, clock)
    /\ pc' = "second"
    /\ UNCHANGED <<modified, result, codecVars, serverVars, markdownVars, classifyVars,
                   clientVars, aiVars>>

\* time passes before the second call
Elapse ==
    /\ pc = "second"
    /\ clock < MaxElapse * TimeStep
    /\ clock' = clock + TimeStep
    /\ UNCHANGED <<validatorVars, pc, codecVars, documentStore, cleanupDue, pending,
                   response, nextId, markdownVars, classifyVars, clientVars, aiVars>>

ExtractAgain ==
    /\ pc = "second"
    /\ reextracted' = extractDocx(docx, UploadName, clock)
    /\ pc' = "both"
    /\ UNCHANGED <<validatorVars, docx, output, serverVars, markdownVars, classifyVars,
                   clientVars, aiVars>>

NextRepeat == ExtractFirst \/ Elapse \/ ExtractAgain

SpecRepeat == InitRepeat /\ [][NextRepeat]_vars

-----------------------------------------------------------------------------
(* classifyParagraph and detectHeadingByPattern called on one paragraph *)

\* the texts of the paragraphs classified
ClassifyTexts ==
    { <<"a">>,
      <<"1", ".", " ", "O">>,
      <<"2", ".", "1", " ", "-", " ", "C">>,
      <<"2", ".", "1", ".", "1", " ", "D">>,
      <<"2", ".", "1", ".", "1", ".", " ", "D">>,
      <<"3", " ", "A">>,
      <<"3", " ", "a">>,
      <<" ", "1", "0", ")", "x">> }

\* the w:pStyle, w:outlineLvl and w:numPr children of w:pPr tried, <<>> for none
ClassifyStyles == {<<>>, <<PStyle(<<"H", "1">>)>>, <<PStyle(<<"H", "2">>)>>,
                   <<PStyle(<<"H", "0">>)>>, <<PStyle(<<"N">>)>>}
ClassifyOutlines == {<<>>, <<El("w:outlineLvl", <<"0">>, <<>>)>>,
                     <<El("w:outlineLvl", <<"2">>, <<>>)>>,
                     <<El("w:outlineLvl", <<"x">>, <<>>)>>}
ClassifyNumberings == {<<>>, <<NumPr(<<"0">>)>>, <<NumPr(<<"1">>)>>}

ClassifyParagraphs ==
    { Para(st \o ol \o nm, <<Run(<<>>, <<WT(t)>>)>>) :
        st \in ClassifyStyles, ol \in ClassifyOutlines,
        nm \in ClassifyNumberings, t \in ClassifyTexts }

InitClassify ==
    /\ clNode \in ClassifyParagraphs
    /\ clResult = NoNode
    /\ clLevel = NoLevel
    /\ pc = "paragraph"
    /\ modified = Null
    /\ original = Null
    /\ result = NoResult
    /\ CodecIdle
    /\ ServerIdle
    /\ MarkdownIdle
    /\ ClientIdle
    /\ CallIdle

Classify ==
    /\ pc = "paragraph"
    /\ clResult' = classifyParagraph(clNode, buildHeadingStyleMap(StylesXml))
    /\ pc' = "classified"
    /\ UNCHANGED <<clNode, clLevel, validatorVars, codecVars, serverVars, markdownVars,
                   clientVars, aiVars>>

Detect ==
    /\ pc = "paragraph"
    /\ clLevel' = detectHeadingByPattern(getPlainText(clNode))
    /\ pc' = "detected"
    /\ UNCHANGED <<clNode, clResult, validatorVars, codecVars, serverVars, markdownVars,
                   clientVars, aiVars>>

NextClassify == Classify \/ Detect

SpecClassify == InitClassify /\ [][NextClassify]_vars

-----------------------------------------------------------------------------
(* app.js: the browser client. One action per event handler up to its      *)
(* first await, and one per continuation of an awaited fetch               *)

MaxDocuments == 2   \* documents the server extracts over a run
MaxFetches == 2     \* requests awaiting their response at a time

\* values of the modified-JSON field: empty, not JSON, and two JSON texts
FieldTexts == {"", "{", "A", "B"}
JsonTexts == {"A", "B"}

\* what a response can be: res.ok with a verdict, or not res.ok
Verdicts == {"valid", "invalid", "error"}

InitClient ==
    /\ modified = Null
    /\ original = Null
    /\ result = NoResult
    /\ docx = NoDocx
    /\ output = NoDocx
    /\ reextracted = Null
    /\ pc = "client"
    /\ ServerIdle
    /\ MarkdownIdle
    /\ ClassifyIdle
    /\ ClientIdle
    /\ CallIdle

clientRest == <<validatorVars, codecVars, pc, documentStore, clock, cleanupDue, pending,
                response, markdownVars, classifyVars, aiVars>>

\* handleFile up to the fetch of /api/extract, for a file named *.docx
handleFile ==
    /\ pc = "client"
    /\ Cardinality(fetches) < MaxFetches
    /\ nextId + Cardinality({f \in fetches : f.kind = "extract"}) < MaxDocuments
    /\ fetches' = fetches \cup
                    {[kind |-> "extract", documentId |-> Null, text |-> ""]}
    /\ UNCHANGED <<state, jsonModified, lastValidation, nextId, clientRest>>

\* handleFile from the response on: the server has stored the document under
\* a fresh id, or has answered with an error
ExtractResponse ==
    /\ pc = "client"
    /\ \E f \in fetches : \E ok \in BOOLEAN :
        /\ f.kind = "extract"
        /\ fetches' = fetches \ {f}
        /\ IF ok
           THEN /\ nextId' = nextId + 1
                /\ state' = [documentId |-> DocId(nextId + 1), validated |-> FALSE]
                /\ jsonModified' = ""
           ELSE UNCHANGED <<nextId, state, jsonModified>>
    /\ UNCHANGED <<lastValidation, clientRest>>

\* the input listener of the field: typing, or the paste button, which sets
\* the value and dispatches an input event
Input ==
    /\ pc = "client"
    /\ \E text \in FieldTexts \ {jsonModified} : jsonModified' = text
    /\ state' = [state EXCEPT !.validated = FALSE]
    /\ UNCHANGED <<fetches, lastValidation, nextId, clientRest>>

\* btnTransform click up to the fetch of /api/transform (key and text given)
ClickTransform ==
    /\ pc = "client"
    /\ Cardinality(fetches) < MaxFetches
    /\ state.documentId # Null
    /\ fetches' = fetches \cup
                    {[kind |-> "transform", documentId |-> state.documentId, text |-> ""]}
    /\ UNCHANGED <<state, jsonModified, lastValidation, nextId, clientRest>>

\* btnTransform click from the response on
TransformResponse ==
    /\ pc = "client"
    /\ \E f \in fetches : \E ok \in BOOLEAN : \E prettyJson \in JsonTexts :
        /\ f.kind = "transform"
        /\ fetches' = fetches \ {f}
        /\ IF ok
           THEN /\ jsonModified' = prettyJson
                /\ state' = [state EXCEPT !.validated = FALSE]
           ELSE UNCHANGED <<state, jsonModified>>
    /\ UNCHANGED <<lastValidation, nextId, clientRest>>

\* btnValidate click up to the fetch of /api/validate; it returns before
\* when the field is empty, no document is loaded or the text is not JSON
ClickValidate ==
    /\ pc = "client"
    /\ Cardinality(fetches) < MaxFetches
    /\ jsonModified # ""
    /\ state.documentId # Null
    /\ jsonModified \in JsonTexts
    /\ fetches' = fetches \cup
                    {[kind |-> "validate", documentId |-> state.documentId,
                      text |-> jsonModified]}
    /\ UNCHANGED <<state, jsonModified, lastValidation, nextId, clientRest>>

\* faulty variant of the continuation: any answered request enables Generate
ValidateResponse_AlwaysValid ==
    /\ pc = "client"
    /\ \E f \in fetches : \E verdict \in Verdicts :
        /\ f.kind = "validate"
        /\ fetches' = fetches \ {f}
        /\ IF verdict = "error"
           THEN UNCHANGED <<state, lastValidation>>
           ELSE /\ state' = [state EXCEPT !.validated = TRUE]
                /\ lastValidation' = [documentId |-> f.documentId, text |-> f.text,
                                      valid |-> verdict = "valid"]
    /\ UNCHANGED <<jsonModified, nextId, clientRest>>

\* btnValidate click from the response on: result.valid sets state.validated
ValidateResponse ==
    /\ pc = "client"
    /\ \E f \in fetches : \E verdict \in Verdicts :
        /\ f.kind = "validate"
        /\ fetches' = fetches \ {f}
        /\ IF verdict = "error"
           THEN UNCHANGED <<state, lastValidation>>
           ELSE /\ state' = [state EXCEPT !.validated = (verdict = "valid")]
                /\ lastValidation' = [documentId |-> f.documentId, text |-> f.text,
                                      valid |-> verdict = "valid"]
    /\ UNCHANGED <<jsonModified, nextId, clientRest>>

\* btnGenerate click up to the fetch of /api/reconstruct
ClickGenerate ==
    /\ pc = "client"
    /\ Cardinality(fetches) < MaxFetches
    /\ state.validated
    /\ state.documentId # Null
    /\ jsonModified \in JsonTexts
    /\ fetches' = fetches \cup
                    {[kind |-> "reconstruct", documentId |-> state.documentId,
                      text |-> jsonModified]}
    /\ UNCHANGED <<state, jsonModified, lastValidation, nextId, clientRest>>

\* btnGenerate click from the response on: a download or a message
GenerateResponse ==
    /\ pc = "client"
    /\ \E f \in fetches :
        /\ f.kind = "reconstruct"
        /\ fetches' = fetches \ {f}
    /\ UNCHANGED <<state, jsonModified, lastValidation, nextId, clientRest>>

\* btnReset click
ClickReset ==
    /\ pc = "client"
    /\ state.documentId # Null \/ jsonModified # ""
    /\ state' = [documentId |-> Null, validated |-> FALSE]
    /\ jsonModified' = ""
    /\ UNCHANGED <<fetches, lastValidation, nextId, clientRest>>

NextClient ==
    \/ handleFile \/ ExtractResponse \/ Input \/ ClickTransform \/ TransformResponse
    \/ ClickValidate \/ ValidateResponse \/ ClickGenerate \/ GenerateResponse
    \/ ClickReset

SpecClient == InitClient /\ [][NextClient]_vars

-----------------------------------------------------------------------------
(* ai-proxy.js: callAI. A message is the sequence of the pieces it is made  *)
(* of; String.prototype.includes is the search of a piece                   *)

\* const providers; "" stands for a property the object does not have
providers ==
    [ openrouter |-> [name |-> "OpenRouter", endpoint |-> "https://openrouter.ai/",
                      model |-> "deepseek/deepseek-chat",
                      fallbackModel |-> "openrouter/free", keyUrl |-> "openrouter.ai/keys"],
      openai |-> [name |-> "OpenAI", endpoint |-> "https://api.openai.com/",
                  model |-> "gpt-4o-mini", fallbackModel |-> "",
                  keyUrl |-> "platform.openai.com/api-keys"] ]

\* providers[provider] for a name that Object.prototype defines: a truthy
\* value without endpoint, model or fallbackModel
Inherited == [name |-> "Object", endpoint |-> "", model |-> "", fallbackModel |-> "",
              keyUrl |-> ""]

\* the provider names callAI is called with
ProviderNames == {"openrouter", "openai", "gemini", "constructor"}

\* error.message texts a provider sends with a status other than 200
ErrorTexts ==
    { <<"Rate limit exceeded">>, <<"Internal error">>,
      <<"No endpoints", " found for this model">>, <<"model ", "not found">>,
      <<"upstream error ", "404">> }

\* the ways httpsPost settles: a response of the provider (its status, its
\* error text, its content, and whether the tokens went into reasoning), or a
\* rejection
httpsPost ==
    { [kind |-> "response", status |-> 200, text |-> <<>>, content |-> c, reasoning |-> r] :
        c \in {"json", "fenced json", "prose", "short"}, r \in BOOLEAN }
    \cup
    { [kind |-> "response", status |-> st, text |-> t, content |-> "", reasoning |-> FALSE] :
        st \in {401, 402, 404, 429, 500}, t \in ErrorTexts }
    \cup
    { [kind |-> k, status |-> 0, text |-> <<>>, content |-> "", reasoning |-> FALSE] :
        k \in {"not json", "connection error", "timeout"} }

\* a request written whose httpsPost has not settled
Pending == [kind |-> "pending", status |-> 0, text |-> <<>>, content |-> "",
            reasoning |-> FALSE]

Returns(value) == [threw |-> FALSE, value |-> value, message |-> <<>>]
Throws(message) == [threw |-> TRUE, value |-> "none", message |-> message]

Includes(message, piece) == \E q \in DOMAIN message : message[q] = piece

\* the text without its code fence is handed to JSON.parse
parseJsonResponse(content) ==
    IF content \in {"json", "fenced json"} THEN Returns("json")
    ELSE Throws(<<"A IA não retornou JSON válido.">>)

\* callOpenAICompatible from the settling of its httpsPost on
callOpenAICompatible(config, settled) ==
    IF settled.kind = "not json" THEN Throws(<<"Resposta inválida da API">>)
    ELSE IF settled.kind = "connection error" THEN Throws(<<"Erro de conexão: ", "ECONNRESET">>)
    ELSE IF settled.kind = "timeout" THEN Throws(<<"Timeout: a IA demorou mais de 2 minutos">>)
    ELSE IF settled.status # 200
    THEN (IF settled.status = 401
          THEN Throws(<<"API Key inválida. Verifique sua chave em ", config.keyUrl>>)
          ELSE IF settled.status = 402
          THEN Throws(<<"Sem créditos. Verifique seu saldo em ", config.keyUrl>>)
          ELSE IF settled.status = 429
          THEN Throws(<<"Limite de requisições atingido. Detalhe: ">> \o settled.text)
          ELSE Throws(<<"Erro ", config.name, " (", ToString(settled.status), "): ">>
                      \o settled.text))
    ELSE IF settled.content = "short"
    THEN (IF settled.reasoning
          THEN Throws(<<"EMPTY_RESPONSE", ": ", "Modelo ", config.model,
                        " gastou todos os tokens em raciocínio.">>)
          ELSE Throws(<<"EMPTY_RESPONSE", ": ", config.name, " retornou resposta vazia.">>))
    ELSE parseJsonResponse(settled.content)

\* faulty variant: the fallback model is tried after any failure
shouldFallback_AnyError(config, message) ==
    config.fallbackModel # ""

shouldFallback(config, message) ==
    /\ config.fallbackModel # ""
    /\ \/ Includes(message, "404")
       \/ Includes(message, "not found")
       \/ Includes(message, "No endpoints")
       \/ Includes(message, "EMPTY_RESPONSE")

fallbackConfig(config) ==
    [config EXCEPT !.model = config.fallbackModel,
                   !.name = config.name \o " (fallback)",
                   !.fallbackModel = ""]

\* err.message.replace('EMPTY_RESPONSE: ', '')
Cleaned(message) ==
    IF Len(message) >= 2 /\ message[1] = "EMPTY_RESPONSE" /\ message[2] = ": "
    THEN SubSeq(message, 3, Len(message)) ELSE message

ConfigOf(name) ==
    IF name \in DOMAIN providers THEN providers[name]
    ELSE IF name = "constructor" THEN Inherited
    ELSE [name |-> "", endpoint |-> "", model |-> "", fallbackModel |-> "", keyUrl |-> ""]

InitCallAI ==
    /\ modified = Null
    /\ original = Null
    /\ result = NoResult
    /\ docx = NoDocx
    /\ output = NoDocx
    /\ reextracted = Null
    /\ pc = "callAI"
    /\ ServerIdle
    /\ MarkdownIdle
    /\ ClassifyIdle
    /\ ClientIdle
    /\ provider \in ProviderNames
    /\ requests = <<>>
    /\ outcome = NoOutcome

callRest == <<validatorVars, codecVars, serverVars, markdownVars, classifyVars, clientVars>>

\* callAI up to the first await: no config, or a config new URL() rejects
\* the endpoint of, ends the call; otherwise the primary request is written
Call ==
    /\ pc = "callAI"
    /\ IF ConfigOf(provider).name = ""
       THEN /\ outcome' = Throws(<<"Provedor \"", provider, "\" não suportado.">>)
            /\ pc' = "returned"
            /\ UNCHANGED requests
       ELSE IF ConfigOf(provider).endpoint = ""
       THEN /\ outcome' = Throws(<<"Invalid URL">>)
            /\ pc' = "returned"
            /\ UNCHANGED requests
       ELSE /\ requests' = <<[model |-> ConfigOf(provider).model, settled |-> Pending]>>
            /\ pc' = "primary"
            /\ UNCHANGED outcome
    /\ UNCHANGED <<provider, callRest>>

\* the primary request settles: callAI returns, falls back or rethrows
PrimarySettles ==
    /\ pc = "primary"
    /\ \E settled \in httpsPost :
        LET config == ConfigOf(provider)
            first == [requests[1] EXCEPT !.settled = settled]
            primary == callOpenAICompatible(config, settled)
        IN IF ~primary.threw
           THEN /\ requests' = <<first>>
                /\ outcome' = primary
                /\ pc' = "returned"
           ELSE IF shouldFallback(config, primary.message)
           THEN /\ requests' = <<first, [model |-> fallbackConfig(config).model,
                                         settled |-> Pending]>>
                /\ pc' = "fallback"
                /\ UNCHANGED outcome
           ELSE /\ requests' = <<first>>
                /\ outcome' = Throws(Cleaned(primary.message))
                /\ pc' = "returned"
    /\ UNCHANGED <<provider, callRest>>

\* the fallback request settles: callAI returns or throws what it gave
FallbackSettles ==
    /\ pc = "fallback"
    /\ \E settled \in httpsPost :
        /\ requests' = [requests EXCEPT ![2].settled = settled]
        /\ outcome' = callOpenAICompatible(fallbackConfig(ConfigOf(provider)), settled)
    /\ pc' = "returned"
    /\ UNCHANGED <<provider, callRest>>

NextCallAI == Call \/ PrimarySettles \/ FallbackSettles

\* every httpsPost settles: by the end of the response, an error of the
\* connection, or the timeout of the request
SpecCallAI == InitCallAI /\ [][NextCallAI]_vars /\ WF_vars(NextCallAI)

-----------------------------------------------------------------------------
(* Properties of validateModifiedJson, stated on the finished call *)

Finished == pc = "done"
FinishedNormally == pc = "done" /\ ~result.threw

\* the blocks array the per-block loop walks (empty when there is none)
CandidateBlocks ==
    IF Truthy(modified) /\ TypeofObject(modified) /\ IsArray(Field(modified, "blocks"))
    THEN Field(modified, "blocks").a ELSE <<>>

\* blocks for which the loop gets as far as reading the id
Identified(i) ==
    LET b == CandidateBlocks[i]
    IN /\ Truthy(b) /\ TypeofObject(b)
       /\ Truthy(Field(b, "id")) /\ Field(b, "id").k = "string"

\* the original block a candidate block is compared with (Undef when none)
OriginalOf(i) == OrigLookup(original, Field(CandidateBlocks[i], "id"))

\* how many violations of one rule the result reports for block i (0-based)
Count(rule, i) ==
    Cardinality({j \in DOMAIN result.errors :
                    result.errors[j].rule = rule /\ result.errors[j].block = i})

\* C3: validateModifiedJson never raises: whatever candidate and original it is
\* given, the call ends by returning a { valid, errors } result.
C3_NeverRaises == Finished => ~result.threw

\* C4: in every result validateModifiedJson returns, early returns included,
\* valid is true exactly when the errors list is empty.
C4_ValidIffNoErrors ==
    FinishedNormally => (result.valid <=> result.errors = <<>>)

\* an early return: no blocks array and no metadata either
C4_Witness ==
    /\ FinishedNormally
    /\ modified = Document(Undef, Undef)
    /\ ~result.valid
    /\ result.errors # <<>>

\* the candidate fails the root check: it is not an object, or has no blocks array
Malformed ==
    ~Truthy(modified) \/ ~TypeofObject(modified) \/ ~IsArray(Field(modified, "blocks"))

\* C6: a candidate that is not an object, or is an object without a blocks
\* array, gets valid = false with exactly one violation, which is the root
\* one and names no block, whatever else is wrong with the candidate.
C6_SingleRootViolation ==
    (Finished /\ Malformed) =>
        /\ ~result.threw
        /\ ~result.valid
        /\ Len(result.errors) = 1
        /\ result.errors[1].rule \in {"root_not_object", "blocks_not_array"}
        /\ result.errors[1].block = -1

\* an object with neither a blocks array nor metadata: two things are wrong
C6_Witness ==
    /\ Finished
    /\ modified = Document(Undef, Str("blocks"))
    /\ result = Returned(FALSE, <<Err("blocks_not_array", -1, -1, -1)>>)

\* a block as the data model describes it
WellShapedCell(cell) ==
    /\ cell.k = "object"
    /\ Field(cell, "id").k = "string" /\ Truthy(Field(cell, "id"))
    /\ Field(cell, "text").k = "string"

WellShaped(b) ==
    /\ b.k = "object"
    /\ Field(b, "id").k = "string" /\ Truthy(Field(b, "id"))
    /\ ValidType(Field(b, "type"))
    /\ Field(b, "type").s \in {"title", "heading", "paragraph", "list_item"}
          => Field(b, "text").k = "string"
    /\ Field(b, "type").s \in {"heading", "list_item"}
          => Field(b, "level").k = "number" /\ Field(b, "level").n >= 1
    /\ Field(b, "type").s = "table"
          => /\ IsArray(Field(b, "rows"))
             /\ \A r \in DOMAIN Field(b, "rows").a :
                   /\ IsArray(Field(b, "rows").a[r])
                   /\ \A c \in DOMAIN Field(b, "rows").a[r].a :
                         WellShapedCell(Field(b, "rows").a[r].a[c])

OriginalBlocks == Field(original, "blocks").a
OriginalIds == {Field(OriginalBlocks[j], "id") : j \in DOMAIN OriginalBlocks}

Kept(i) == \E j \in DOMAIN OriginalBlocks : CandidateBlocks[i] = OriginalBlocks[j]
New(i) ==
    /\ WellShaped(CandidateBlocks[i])
    /\ Field(CandidateBlocks[i], "id") \notin OriginalIds

\* blocks of the original kept unchanged, each at most once and in any order,
\* and new well-shaped blocks under ids of their own
KeptAndNewBlocks ==
    /\ original = WellFormedOriginal
    /\ Truthy(modified) /\ TypeofObject(modified)
    /\ IsArray(Field(modified, "blocks"))
    /\ \A i \in DOMAIN CandidateBlocks : Kept(i) \/ New(i)
    /\ \A i, j \in DOMAIN CandidateBlocks :
          i # j => Field(CandidateBlocks[i], "id") # Field(CandidateBlocks[j], "id")

\* where the cells of a block are: <<row, cell>>, 1-based
CellIdsOf(b) ==
    IF Field(b, "type") = Str("table")
    THEN UNION { {<<r, c>> : c \in DOMAIN Field(b, "rows").a[r].a} :
                 r \in DOMAIN Field(b, "rows").a }
    ELSE {}

CellIdAt(b, rc) == Field(Field(b, "rows").a[rc[1]].a[rc[2]], "id")

\* no cell id of the candidate is the id of a block or of another cell
CellIdsDistinct ==
    \A i \in DOMAIN CandidateBlocks : \A rc \in CellIdsOf(CandidateBlocks[i]) :
        LET id == CellIdAt(CandidateBlocks[i], rc)
        IN /\ \A j \in DOMAIN CandidateBlocks : Field(CandidateBlocks[j], "id") # id
           /\ \A j \in DOMAIN CandidateBlocks : \A qd \in CellIdsOf(CandidateBlocks[j]) :
                 (<<i, rc>> # <<j, qd>>) => CellIdAt(CandidateBlocks[j], qd) # id

HasMetadata ==
    Truthy(Field(modified, "metadata")) /\ TypeofObject(Field(modified, "metadata"))

\* C7 as stated: a candidate made of blocks of the original kept unchanged
\* (any subset, any order) and of well-shaped blocks whose ids are new and
\* mutually distinct is accepted.
C7_KeptAndNewAccepted ==
    (Finished /\ KeptAndNewBlocks) => result.valid

\* C7, amended: such a candidate is accepted when it also has a metadata
\* object and no table-cell id of it equals a block id or another cell id.
C7_KeptAndNewWithDistinctCellIds ==
    (Finished /\ KeptAndNewBlocks /\ HasMetadata /\ CellIdsDistinct) => result.valid

\* a new block in front of one kept block, the other original block removed
C7_Witness ==
    /\ Finished /\ KeptAndNewBlocks /\ HasMetadata /\ CellIdsDistinct
    /\ Len(CandidateBlocks) = 2
    /\ New(1) /\ Kept(2)
    /\ result.valid

TypeOf(i) == Field(CandidateBlocks[i], "type")
LevelOf(i) == Field(CandidateBlocks[i], "level")

TypeDiffers(i) == TypeOf(i) # Field(OriginalOf(i), "type")
LevelDiffers(i) ==
    /\ TypeOf(i) = Str("heading")
    /\ Field(OriginalOf(i), "type") = Str("heading")
    /\ LevelOf(i) # Field(OriginalOf(i), "level")

CandidateTable(i) ==
    /\ Identified(i)
    /\ TypeOf(i) = Str("table")
    /\ IsArray(Field(CandidateBlocks[i], "rows"))

RowsOf(i) == Field(CandidateBlocks[i], "rows")
OriginalRowsOf(i) == Field(OriginalOf(i), "rows")
MatchesOriginalTable(i) ==
    Truthy(OriginalOf(i)) /\ Field(OriginalOf(i), "type") = Str("table")

\* C9: a candidate table under the id of an original table gets exactly one
\* row-count violation when its number of rows differs from the original's
\* (and none when it does not); a candidate table under a new id gets no
\* geometry violation, whatever its rows and cells.
C9_RowCount ==
    FinishedNormally =>
        \A i \in DOMAIN CandidateBlocks : CandidateTable(i) =>
            IF MatchesOriginalTable(i)
            THEN Count("row_count_changed", i - 1) =
                    (IF Len(RowsOf(i).a) # Len(OriginalRowsOf(i).a) THEN 1 ELSE 0)
            ELSE /\ Count("row_count_changed", i - 1) = 0
                 /\ Count("cell_count_changed", i - 1) = 0

\* the original table of two rows comes back with three, after a new table
\* of three rows
C9_Witness ==
    /\ FinishedNormally
    /\ Len(CandidateBlocks) = 2
    /\ CandidateTable(1) /\ ~Truthy(OriginalOf(1)) /\ Len(RowsOf(1).a) = 3
    /\ CandidateTable(2) /\ MatchesOriginalTable(2)
    /\ Len(RowsOf(2).a) = 3 /\ Len(OriginalRowsOf(2).a) = 2
    /\ Count("row_count_changed", 1) = 1
    /\ Count("row_count_changed", 0) = 0

\* row r (1-based) is in both tables, the candidate's is an array, and the
\* two have different numbers of cells
CellCountDiffers(i, r) ==
    /\ r \in DOMAIN RowsOf(i).a
    /\ r \in DOMAIN OriginalRowsOf(i).a
    /\ IsArray(RowsOf(i).a[r])
    /\ Len(RowsOf(i).a[r].a) # Len(OriginalRowsOf(i).a[r].a)

RowReported(i, r) ==
    \E j \in DOMAIN result.errors :
        result.errors[j] = Err("cell_count_changed", i - 1, r - 1, -1)

\* C10 as stated: for a candidate table under the id of an original table,
\* every row present in both tables whose cell count differs is reported,
\* whether or not the two tables have the same number of rows.
C10_CellCountAlwaysReported ==
    FinishedNormally =>
        \A i \in DOMAIN CandidateBlocks : (CandidateTable(i) /\ MatchesOriginalTable(i)) =>
            \A r \in DOMAIN RowsOf(i).a : CellCountDiffers(i, r) => RowReported(i, r)

\* C10, amended: when the two tables have the same number of rows, a row
\* that is an array is reported exactly when its cell count differs from the
\* original row's; when the numbers of rows differ, no row is reported.
C10_CellCountOfEqualRowCounts ==
    FinishedNormally =>
        \A i \in DOMAIN CandidateBlocks : (CandidateTable(i) /\ MatchesOriginalTable(i)) =>
            \A r \in DOMAIN RowsOf(i).a :
                /\ RowReported(i, r) => Len(RowsOf(i).a) = Len(OriginalRowsOf(i).a)
                /\ IsArray(RowsOf(i).a[r]) =>
                      (RowReported(i, r) <=>
                          /\ Len(RowsOf(i).a) = Len(OriginalRowsOf(i).a)
                          /\ CellCountDiffers(i, r))

\* the original table comes back with its two rows, the first one shorter
C10_Witness ==
    /\ FinishedNormally
    /\ \E i \in DOMAIN CandidateBlocks :
          /\ CandidateTable(i) /\ MatchesOriginalTable(i)
          /\ Len(RowsOf(i).a) = Len(OriginalRowsOf(i).a)
          /\ CellCountDiffers(i, 1)
          /\ ~CellCountDiffers(i, 2)
          /\ RowReported(i, 1) /\ ~RowReported(i, 2)

\* no two blocks of the candidate have the same id
BlockIdsDistinct ==
    \A i, j \in DOMAIN CandidateBlocks :
        i # j => Field(CandidateBlocks[i], "id") # Field(CandidateBlocks[j], "id")

\* C11: a candidate is accepted only if its block ids and table-cell ids are
\* pairwise distinct in one namespace: no block id repeats, no cell id is the
\* id of a block (earlier or later) and no cell id is the id of another cell
\* of the same or another table.
C11_SharedIdNamespace ==
    (FinishedNormally /\ result.valid) => (BlockIdsDistinct /\ CellIdsDistinct)

\* a new table one of whose cells has the id of the block after it, and two
\* of whose cells share an id: the candidate is refused, the repeated cell id
\* and the block after the table both being reported as duplicates
C11_Witness ==
    /\ FinishedNormally
    /\ HasMetadata
    /\ Len(CandidateBlocks) = 2
    /\ WellShaped(CandidateBlocks[1]) /\ WellShaped(CandidateBlocks[2])
    /\ \E rc \in CellIdsOf(CandidateBlocks[1]) :
          CellIdAt(CandidateBlocks[1], rc) = Field(CandidateBlocks[2], "id")
    /\ Count("cell_id_duplicate", 0) = 1
    /\ Count("id_duplicate", 1) = 1
    /\ ~result.valid

-----------------------------------------------------------------------------
(* Properties of the codec end to end *)

\* the text content of a Document: per block its text, per table the texts
\* of its cells row by row
TextsOf(doc) ==
    LET bs == doc.blocks.a
        CellTexts(row) == [c \in DOMAIN row.a |-> row.a[c].text]
    IN [j \in DOMAIN bs |->
          IF bs[j].type = Str("table")
          THEN [kind |-> "table", rows |-> [r \in DOMAIN bs[j].rows.a |-> CellTexts(bs[j].rows.a[r])]]
          ELSE [kind |-> "text", text |-> bs[j].text]]

\* C1: validating an extracted Document against itself gives valid = true
\* and no errors.
C1_SelfValidation ==
    (pc = "done" /\ modified = original) =>
        (~result.threw /\ result.valid /\ result.errors = <<>>)

\* C2: extracting a container, reconstructing it with the unmodified
\* extraction as candidate and extracting the outcome again gives the block
\* texts and table cell texts of the first extraction.
C2_IdentityRoundTrip ==
    (pc = "end" /\ modified = original) => TextsOf(reextracted) = TextsOf(original)

\* the w:p and w:tbl element children of a body, in document order: the k-th
\* of them is the one the identity rule gives index k - 1
IndexedNodes(body) ==
    LET Indexed(n) == IsElement(n) /\ n.tag \in {"w:p", "w:tbl"}
    IN SelectSeq(body, Indexed)

\* the node is emitted as a block: a table, or a paragraph that is neither
\* image-only nor empty after trimming
Emitted(node) ==
    \/ node.tag = "w:tbl"
    \/ ~isImageOnlyParagraph(node) /\ Trim(getPlainText(node)) # <<>>

Extracted == pc # "upload"

\* the node the j-th block of the extraction comes from: the j-th emitted one
SourceIndex(j) ==
    LET nodes == IndexedNodes(docx.body)
    IN CHOOSE k \in DOMAIN nodes :
          /\ Emitted(nodes[k])
          /\ Cardinality({q \in 1..(k - 1) : Emitted(nodes[q])}) = j - 1

\* C12: every w:p and w:tbl element child of the body consumes one index in
\* document order, emitted or not; the blocks of the extraction are the
\* emitted nodes in order, each under block_%04d of its own index, so block
\* ids are unique and increase along the blocks; the cells of a table are
\* under cell_%04d_row_col of the table's index.
C12_IdentityRule ==
    Extracted =>
        LET nodes == IndexedNodes(docx.body)
            blocks == original.blocks.a
        IN /\ Len(blocks) = Cardinality({k \in DOMAIN nodes : Emitted(nodes[k])})
           /\ \A j \in DOMAIN blocks :
                 LET k == SourceIndex(j)
                 IN /\ blocks[j].id = Str(blockId(k - 1))
                    /\ (blocks[j].type = Str("table")) <=> (nodes[k].tag = "w:tbl")
                    /\ blocks[j].type = Str("table") =>
                          \A r \in DOMAIN blocks[j].rows.a :
                             \A c \in DOMAIN blocks[j].rows.a[r].a :
                                blocks[j].rows.a[r].a[c].id = Str(cellId(k - 1, r - 1, c - 1))
           /\ \A i, j \in DOMAIN blocks :
                 i < j => /\ blocks[i].id # blocks[j].id
                          /\ SourceIndex(i) < SourceIndex(j)

\* an image-only paragraph followed by a table: the only block is the table,
\* under the second index
C12_Witness ==
    /\ Extracted
    /\ Len(IndexedNodes(docx.body)) = 2
    /\ isImageOnlyParagraph(docx.body[1])
    /\ docx.body[2].tag = "w:tbl"
    /\ Len(original.blocks.a) = 1
    /\ original.blocks.a[1].id = Str("block_0001")
    /\ original.blocks.a[1].rows.a[1].a[1].id = Str("cell_0001_0_0")

\* C13: in every state after the extraction (reconstructDocx having run or
\* not), the id-to-node map reconstructDocx builds from the uploaded bytes
\* sends the id of every extracted block to the body element the block was
\* extracted from.
C13_SameIndexMap ==
    Extracted =>
        LET blocks == original.blocks.a
            map == originalBlockNodes(docx.body)
        IN \A j \in DOMAIN blocks :
              /\ HasOriginalNode(docx.body, blocks[j].id)
              /\ blocks[j].id.s \in DOMAIN map
              /\ map[blocks[j].id.s] = SourceIndex(j)
              /\ OriginalNode(docx.body, blocks[j].id)
                    = IndexedNodes(docx.body)[SourceIndex(j)]

\* reconstructDocx has run on a body whose first paragraph was dropped by the
\* extraction and whose second element is a table: the table's block id is
\* mapped to the second element
C13_Witness ==
    /\ pc = "reconstructed"
    /\ Len(IndexedNodes(docx.body)) = 2
    /\ ~Emitted(docx.body[1])
    /\ docx.body[2].tag = "w:tbl"
    /\ Len(original.blocks.a) = 1
    /\ originalBlockNodes(docx.body)[original.blocks.a[1].id.s] = 2
    /\ OriginalNode(docx.body, original.blocks.a[1].id) = docx.body[2]

\* what classifyParagraph makes of the node the j-th block comes from
ClassOf(j) ==
    classifyParagraph(IndexedNodes(docx.body)[SourceIndex(j)],
                      buildHeadingStyleMap(docx.styles)).type

\* the body is one paragraph that is emitted and classified as a paragraph
SinglePlainParagraph ==
    /\ Len(docx.body) = 1
    /\ docx.body[1].tag = "w:p"
    /\ Emitted(docx.body[1])
    /\ classifyParagraph(docx.body[1], buildHeadingStyleMap(docx.styles)).type = "paragraph"

\* C14: an extracted Document has at most one title; the title is the first
\* block classified as a paragraph, provided only list items come before it,
\* and there is none when a heading or a table comes before every paragraph;
\* so no heading or table is in front of the title. A body that is a single
\* plain paragraph gives one title block block_0000, blockCount 1 and
\* tableCount 0.
C14_TitlePass ==
    Extracted =>
        LET blocks == original.blocks.a
            IsTable(b) == b.type = Str("table")
        IN /\ Cardinality({j \in DOMAIN blocks : blocks[j].type = Str("title")}) <= 1
           /\ \A j \in DOMAIN blocks :
                 /\ blocks[j].type = Str("title") =>
                       /\ IndexedNodes(docx.body)[SourceIndex(j)].tag = "w:p"
                       /\ ClassOf(j) = "paragraph"
                       /\ \A i \in 1..(j - 1) : blocks[i].type = Str("list_item")
                 /\ blocks[j].type = Str("paragraph") =>
                       \E i \in 1..(j - 1) :
                          blocks[i].type \in {Str("title"), Str("heading"), Str("table")}
                 /\ blocks[j].type \notin {Str("title"), Str("table")} =>
                       blocks[j].type = Str(ClassOf(j))
           /\ original.metadata.blockCount = Num(Len(blocks))
           /\ original.metadata.tableCount = Num(Len(SelectSeq(blocks, IsTable)))
           /\ SinglePlainParagraph =>
                 /\ Len(blocks) = 1
                 /\ blocks[1].id = Str("block_0000")
                 /\ blocks[1].type = Str("title")
                 /\ original.metadata.blockCount = Num(1)
                 /\ original.metadata.tableCount = Num(0)

\* a list item followed by a plain paragraph: the paragraph is the title
C14_Witness ==
    /\ Extracted
    /\ Len(original.blocks.a) = 2
    /\ original.blocks.a[1].type = Str("list_item")
    /\ original.blocks.a[2].type = Str("title")
    /\ ClassOf(2) = "paragraph"

-----------------------------------------------------------------------------
(* Properties of the markers *)

Formatted == pc \in {"text", "parsed"} /\ mdParagraph # NoNode

\* the runs of the formatted paragraph
RunsOf(pNode) == getDirectChildren(pNode, "w:r")

\* a run is flagged with w:b (w:i) unless the flag is switched off
Flagged(run, tag) ==
    \E j \in DOMAIN run.kids :
        /\ run.kids[j].tag = "w:rPr"
        /\ \E q \in DOMAIN run.kids[j].kids :
              /\ run.kids[j].kids[q].tag = tag
              /\ run.kids[j].kids[q].val \notin {<<"0">>, <<"f", "a", "l", "s", "e">>}

FlagsOf(run) == <<Flagged(run, "w:b"), Flagged(run, "w:i")>>

\* the content of a run that holds one w:t and nothing else but its w:rPr
IsTextRun(run) ==
    /\ Cardinality({j \in DOMAIN run.kids : run.kids[j].tag = "w:t"}) = 1
    /\ \A j \in DOMAIN run.kids : run.kids[j].tag \in {"w:t", "w:rPr"}
    /\ \A j \in DOMAIN run.kids : run.kids[j].tag = "w:t" => run.kids[j].text # <<>>

ContentOf(run) ==
    run.kids[CHOOSE j \in DOMAIN run.kids : run.kids[j].tag = "w:t"].text

\* the paragraph is made of runs of text only
TextRunsOnly(pNode) ==
    /\ \A j \in DOMAIN pNode.kids : pNode.kids[j].tag = "w:r"
    /\ \A j \in DOMAIN pNode.kids : IsTextRun(pNode.kids[j])

\* the marker of a group of runs with these flags
StarsOf(flags) ==
    IF flags[1] /\ flags[2] THEN Stars(3)
    ELSE IF flags[1] THEN Stars(2)
    ELSE IF flags[2] THEN Stars(1)
    ELSE <<>>

\* the runs from the j-th on, each group of adjacent runs with the same flags
\* between one pair of markers
RECURSIVE GroupsRendered(_, _)
GroupsRendered(runs, j) ==
    IF j > Len(runs) THEN <<>>
    ELSE (IF j = 1 \/ FlagsOf(runs[j - 1]) # FlagsOf(runs[j])
          THEN StarsOf(FlagsOf(runs[j])) ELSE <<>>)
         \o ContentOf(runs[j])
         \o (IF j = Len(runs) \/ FlagsOf(runs[j + 1]) # FlagsOf(runs[j])
             THEN StarsOf(FlagsOf(runs[j])) ELSE <<>>)
         \o GroupsRendered(runs, j + 1)

\* exactly three runs: bold, italic, bold and italic
ThreeRuns(pNode) ==
    /\ TextRunsOnly(pNode)
    /\ Len(pNode.kids) = 3
    /\ FlagsOf(pNode.kids[1]) = <<TRUE, FALSE>>
    /\ FlagsOf(pNode.kids[2]) = <<FALSE, TRUE>>
    /\ FlagsOf(pNode.kids[3]) = <<TRUE, TRUE>>

\* C15 as stated: the formatted text of a paragraph of exactly three runs,
\* bold a, italic b, bold+italic c, is **a** *b* ***c***.
C15_ThreeRunsSpaced ==
    (Formatted /\ ThreeRuns(mdParagraph)) =>
        mdText = SpacedText(ContentOf(mdParagraph.kids[1]), ContentOf(mdParagraph.kids[2]),
                            ContentOf(mdParagraph.kids[3]))

\* C15, amended: the formatted text of a paragraph of runs of text is the
\* runs' contents in order, each group of adjacent runs with the same flags
\* between the markers of its flags (*** bold+italic, ** bold, * italic,
\* none plain) and nothing between the groups: three runs bold a, italic b,
\* bold+italic c give **a***b****c***, and **a** *b* ***c*** is the text of
\* the five runs that have a plain blank between them.
C15_GroupsConcatenated ==
    Formatted =>
        /\ TextRunsOnly(mdParagraph) => mdText = GroupsRendered(mdParagraph.kids, 1)
        /\ ThreeRuns(mdParagraph) =>
              mdText = Stars(2) \o ContentOf(mdParagraph.kids[1]) \o Stars(2)
                       \o Stars(1) \o ContentOf(mdParagraph.kids[2]) \o Stars(1)
                       \o Stars(3) \o ContentOf(mdParagraph.kids[3]) \o Stars(3)
        /\ \A a, b, c \in Contents :
              mdParagraph = SpacedParagraph(a, b, c) => mdText = SpacedText(a, b, c)

\* the three runs bold a, italic bc, bold+italic a have been formatted
C15_Witness ==
    /\ Formatted
    /\ ThreeRuns(mdParagraph)
    /\ ContentOf(mdParagraph.kids[2]) = <<"b", "c">>
    /\ mdText = <<"*", "*", "a", "*", "*", "*", "b", "c", "*", "*", "*", "*", "a", "*", "*", "*">>

TextParsed == pc = "parsed"

\* no line break in the content
OneLine(t) == \A j \in DOMAIN t : t[j] \notin LineTerminators

\* the segments of a sequence that have a flag set
MarkedSegments(segments) ==
    LET IsMarked(seg) == seg.bold \/ seg.italic IN SelectSeq(segments, IsMarked)

\* C16 as stated: parseMarkdown of **a** *b* ***c*** returns exactly the three
\* segments a bold, b italic, c bold+italic.
C16_ThreeSegments ==
    TextParsed =>
        \A a, b, c \in TypedContents :
            mdText = SpacedText(a, b, c) =>
                mdSegments = <<Segment(a, TRUE, FALSE), Segment(b, FALSE, TRUE),
                               Segment(c, TRUE, TRUE)>>

\* C16, amended: for contents without asterisks and line breaks,
\* parseMarkdown of **a** *b* ***c*** returns five segments: a bold, a plain
\* blank, b italic, a plain blank, c bold+italic; the segments with a flag
\* set are the three of the claim, in that order.
C16_FiveSegments ==
    TextParsed =>
        \A a, b, c \in TypedContents :
            (mdText = SpacedText(a, b, c) /\ OneLine(a) /\ OneLine(b) /\ OneLine(c)) =>
                /\ mdSegments = <<Segment(a, TRUE, FALSE), Segment(<<" ">>, FALSE, FALSE),
                                  Segment(b, FALSE, TRUE), Segment(<<" ">>, FALSE, FALSE),
                                  Segment(c, TRUE, TRUE)>>
                /\ MarkedSegments(mdSegments) =
                      <<Segment(a, TRUE, FALSE), Segment(b, FALSE, TRUE),
                        Segment(c, TRUE, TRUE)>>

\* the typed text **a** *bc* ***x y*** has been parsed into five segments
C16_Witness ==
    /\ TextParsed
    /\ mdParagraph = NoNode
    /\ mdText = SpacedText(<<"a">>, <<"b", "c">>, <<"x", " ", "y">>)
    /\ Len(mdSegments) = 5
    /\ mdSegments[5] = Segment(<<"x", " ", "y">>, TRUE, TRUE)

-----------------------------------------------------------------------------
(* Properties of the server *)

\* the validator's verdict on the candidate of a request against the original
\* stored under the request's documentId
Verdict(to) == validateModifiedJson(to.modifiedJson, documentStore[to.documentId].originalJson)

\* a step that starts a reconstruction
StartsReconstruction == pending = NoRequest /\ pending' # NoRequest

\* a step in which the reconstruct handler answers the request itself
AnswersReconstruct ==
    /\ pending = NoRequest
    /\ response' # response
    /\ response'.route = "reconstruct"

\* C5: a reconstruction is started only for a candidate the validator found
\* valid against the original stored under the request's documentId, and is
\* carried out on that candidate and that stored document; a request whose
\* candidate the validator found invalid is answered with status 400 and the
\* validator's errors, and starts no reconstruction.
C5_ValidatorGatesReconstructor ==
    [][ /\ StartsReconstruction =>
            /\ pending'.to.documentId \in DOMAIN documentStore
            /\ pending'.doc = documentStore[pending'.to.documentId]
            /\ ~Verdict(pending'.to).threw
            /\ Verdict(pending'.to).valid
        /\ (pending # NoRequest /\ pending' = NoRequest) =>
            /\ response'.status = 200
            /\ response'.to = pending.to
            /\ response'.body.buffer =
                  reconstructDocx(pending.doc.buffer, pending.to.modifiedJson,
                                  pending.doc.originalJson)
            /\ validateModifiedJson(pending.to.modifiedJson, pending.doc.originalJson).valid
        /\ ( /\ AnswersReconstruct
             /\ response'.to.documentId \in DOMAIN documentStore
             /\ Truthy(response'.to.modifiedJson)
             /\ ~Verdict(response'.to).threw
             /\ ~Verdict(response'.to).valid ) =>
            /\ response'.status = 400
            /\ response'.body.validationErrors = Verdict(response'.to).errors
            /\ response'.body.validationErrors # <<>>
            /\ pending' = NoRequest
      ]_vars

\* an invalid candidate was refused with its violations and a reconstruction
\* of a valid candidate for a stored document is in flight
C5_Witness ==
    /\ pending # NoRequest
    /\ pending.to.modifiedJson.blocks.a # <<>>
    /\ response.route = "reconstruct"
    /\ response.status = 400
    /\ "validationErrors" \in DOMAIN response.body

-----------------------------------------------------------------------------
(* Properties of reconstructDocx *)

Reconstructed == pc \in {"reconstructed", "end"}

\* the nodes of the rebuilt body that stand for the candidate's blocks
BlockCount == Len(modified.blocks.a)

RECURSIVE HoldsTag(_, _)
HoldsTag(node, tags) ==
    \E j \in DOMAIN node.kids : node.kids[j].tag \in tags \/ HoldsTag(node.kids[j], tags)

HoldsImage(node) == HoldsTag(node, {"w:drawing", "w:pict", "mc:AlternateContent"})

\* C17: after reconstructDocx no node of the body produced for a candidate
\* block holds a w:drawing, w:pict or mc:AlternateContent element, whether
\* the node was cloned from an original node or built from a template.
C17_NoImageInRebuiltNodes ==
    Reconstructed => \A j \in 1..BlockCount : ~HoldsImage(output.body[j])

\* the block at position j of the candidate is a table under an id that no
\* block node of the original body has
NewTableAt(j) ==
    /\ modified.blocks.a[j].type = Str("table")
    /\ modified.blocks.a[j].id.s \notin DOMAIN originalBlockNodes(docx.body)

\* what does hold: every node except those built for new tables is free of
\* image elements
NoImageOutsideNewTables ==
    Reconstructed =>
        \A j \in 1..BlockCount : NewTableAt(j) \/ ~HoldsImage(output.body[j])

\* the element children of the original body that are neither paragraphs nor
\* tables, in order
Preserved ==
    LET Other(n) == IsElement(n) /\ n.tag # "w:p" /\ n.tag # "w:tbl"
    IN SelectSeq(docx.body, Other)

\* the text of the w:t children of the paragraph's own runs
OwnRunText(node) ==
    LET IsRun(n) == n.tag = "w:r"
        IsT(n) == n.tag = "w:t"
        runs == SelectSeq(node.kids, IsRun)
    IN Flatten([r \in DOMAIN runs |->
                  LET ts == SelectSeq(runs[r].kids, IsT)
                  IN Flatten([q \in DOMAIN ts |-> ts[q].text])])

\* a text without its markers
Unmarked(text) ==
    LET segments == parseMarkdown(text)
    IN Flatten([q \in DOMAIN segments |-> segments[q].text])

ParagraphProps(node) ==
    LET IsPPr(n) == n.tag = "w:pPr" IN SelectSeq(node.kids, IsPPr)

\* the node is the one made for the block: for a table block a table, or
\* the kind of node the original body has under the block's id; for any
\* other block a paragraph whose own runs carry the block's text, with the
\* properties of the original paragraph when the id is one of the original
\* body
StandsFor(node, block) ==
    IF block.type = Str("table")
    THEN node.tag = (IF block.id.s \in DOMAIN originalBlockNodes(docx.body)
                     THEN IndexedNodes(docx.body)
                             [originalBlockNodes(docx.body)[block.id.s]].tag
                     ELSE "w:tbl")
    ELSE /\ node.tag = "w:p"
         /\ OwnRunText(node) = Unmarked(block.text.t)
         /\ block.id.s \in DOMAIN originalBlockNodes(docx.body) =>
               ParagraphProps(node)
                  = ParagraphProps(IndexedNodes(docx.body)
                                      [originalBlockNodes(docx.body)[block.id.s]])

\* C18: after reconstructDocx the children of the body are one node per
\* candidate block, in the candidate's order, followed by the original
\* element children that are neither paragraphs nor tables, unchanged and in
\* their order; nothing else is in the body, so an original block whose id
\* the candidate dropped has no node.
C18_BodyLayout ==
    Reconstructed =>
        LET blocks == modified.blocks.a
        IN /\ \A j \in DOMAIN output.body : IsElement(output.body[j])
           /\ Len(output.body) = Len(blocks) + Len(Preserved)
           /\ SubSeq(output.body, Len(blocks) + 1, Len(output.body)) = Preserved
           /\ \A j \in DOMAIN blocks : StandsFor(output.body[j], blocks[j])

\* a new block in front of the block of a body that ends in section properties
C18_Witness ==
    /\ pc = "reconstructed"
    /\ Len(docx.body) = 2
    /\ docx.body[1].tag = "w:p"
    /\ docx.body[2].tag = "w:sectPr"
    /\ Len(modified.blocks.a) = 2
    /\ modified.blocks.a[1].id = Str("block_0009")
    /\ modified.blocks.a[2].id = Str("block_0000")
    /\ Len(output.body) = 3
    /\ output.body[3] = docx.body[2]

\* the two blocks of a body in reverse order
Reordered ==
    /\ pc = "reconstructed"
    /\ Len(modified.blocks.a) = 2
    /\ modified.blocks.a[1].id = Str("block_0001")
    /\ modified.blocks.a[2].id = Str("block_0000")
    /\ output.body[1].tag = "w:tbl"
    /\ output.body[2].tag = "w:p"

\* a body whose only block is dropped by the candidate
Dropped ==
    /\ pc = "reconstructed"
    /\ Len(original.blocks.a) = 1
    /\ modified.blocks.a = <<>>
    /\ output.body = Preserved
    /\ Preserved # <<>>

-----------------------------------------------------------------------------
(* Properties of the document store *)

\* the entry under id was put more than the retention time ago
Expired(id) ==
    id \in DOMAIN documentStore /\ clock - documentStore[id].createdAt > DOCUMENT_TTL

\* the step is a validate or transform request that carries its required
\* fields and documentId id, answered in the step
AnswersLookup(id) ==
    /\ response' # response
    /\ \/ response'.route = "validate" /\ Truthy(response'.to.modifiedJson)
       \/ /\ response'.route = "transform"
          /\ Truthy(response'.to.userText)
          /\ Truthy(response'.to.apiKey)
    /\ response'.to.documentId = id

\* the step is a reconstruct request with its required fields and id
ReconstructLookup(id) ==
    /\ pending = NoRequest
    /\ \/ /\ pending' # NoRequest
          /\ pending'.to.documentId = id
       \/ /\ pending' = NoRequest
          /\ response' # response
          /\ response'.route = "reconstruct"
          /\ Truthy(response'.to.modifiedJson)
          /\ response'.to.documentId = id

\* the request of the step is answered as not found
NotFound == response' # response /\ response'.status = 404 /\ pending' = pending

\* C19: at every instant more than the retention time (one hour) after an
\* entry was put, a validate, reconstruct or transform request that looks
\* its id up is answered as not found.
C19_NeverServedAfterRetention ==
    [][\A id \in DOMAIN documentStore :
          (Expired(id) /\ (AnswersLookup(id) \/ ReconstructLookup(id))) => NotFound]_vars

\* what does hold: an entry stays in the store for at most the retention
\* time and one period of the cleanup timer
GoneOnePeriodLate ==
    \A id \in DOMAIN documentStore :
        clock - documentStore[id].createdAt <= DOCUMENT_TTL + CleanupInterval

\* an entry older than the retention time is in the store with no cleanup due
ExpiredBetweenCleanups ==
    \E id \in DOMAIN documentStore : Expired(id) /\ ~cleanupDue

\* the cleanup has removed the one document that was stored
Removed == nextId = 1 /\ DOMAIN documentStore = {}

-----------------------------------------------------------------------------
(* Properties of repeated calls *)

-----------------------------------------------------------------------------
(* Properties of the classification *)

\* the children of the w:pPr of the paragraph classified
PropsOf(node) ==
    LET IsPPr(n) == n.tag = "w:pPr"
        pPrs == SelectSeq(node.kids, IsPPr)
    IN IF pPrs = <<>> THEN <<>> ELSE pPrs[1].kids

HasProp(node, tag) == \E j \in DOMAIN PropsOf(node) : PropsOf(node)[j].tag = tag

PropVal(node, tag) ==
    PropsOf(node)[CHOOSE j \in DOMAIN PropsOf(node) : PropsOf(node)[j].tag = tag].val

\* the heading styles of StylesXml and their levels
StyleLevels == (<<"H", "1">> :> 1) @@ (<<"H", "2">> :> 2) @@ (<<"H", "0">> :> 0)

HasHeadingStyle(node) ==
    HasProp(node, "w:pStyle") /\ PropVal(node, "w:pStyle") \in DOMAIN StyleLevels

\* the outline levels that are numbers
OutlineLevels == (<<"0">> :> 1) @@ (<<"2">> :> 3)

HasOutlineLevel(node) ==
    HasProp(node, "w:outlineLvl") /\ PropVal(node, "w:outlineLvl") \in DOMAIN OutlineLevels

NumberedText(node) == detectHeadingByPattern(getPlainText(node)) # NoLevel

StyleOverOutline ==
    /\ pc = "classified"
    /\ PropsOf(clNode) = <<PStyle(<<"H", "2">>), El("w:outlineLvl", <<"0">>, <<>>)>>
    /\ clResult.type = "heading"
    /\ clResult.level = 2

\* the dotted numeral d1.d2...dk a text begins with, <<>> when it begins with none
WholeNumeral(t) ==
    LET ends == {n \in 1..Len(t) :
                   /\ \A j \in 1..n : t[j] \in Digits \cup {"."}
                   /\ t[n] \in Digits
                   /\ \A j \in 1..(n - 1) : t[j] = "." => t[j + 1] # "."
                   /\ t[1] # "."}
    IN IF ends = {} THEN <<>>
       ELSE SubSeq(t, 1, CHOOSE n \in ends : \A m \in ends : m <= n)

Components(numeral) == Cardinality({j \in DOMAIN numeral : numeral[j] = "."}) + 1

\* C22: whenever detectHeadingByPattern reports a heading for a text whose
\* trimmed form begins with a dotted numeral d1.d2...dk, the level is k, the
\* number of components of that whole numeral.
C22_LevelIsComponentCount ==
    (pc = "detected" /\ clLevel # NoLevel
        /\ WholeNumeral(Trim(getPlainText(clNode))) # <<>>)
    => clLevel = Components(WholeNumeral(Trim(getPlainText(clNode))))

\* what does hold: the level is k, or k - 1 when the numeral is followed by
\* none of the separators, its last dot then being taken for the separator
LevelWithinOne ==
    (pc = "detected" /\ clLevel # NoLevel
        /\ WholeNumeral(Trim(getPlainText(clNode))) # <<>>)
    => LET t == Trim(getPlainText(clNode))
           k == Components(WholeNumeral(t))
           rest == TrimStart(SubSeq(t, Len(WholeNumeral(t)) + 1, Len(t)))
       IN IF rest # <<>> /\ Head(rest) \in {".", "-", ":", ")"}
          THEN clLevel = k
          ELSE clLevel = (IF k > 1 THEN k - 1 ELSE 1)

-----------------------------------------------------------------------------
(* Properties of the templates *)

\* the block of the original Document under the id of the k-th indexed node
\* has the kind, and the level when the kind is heading
BlockOfKind(k, kind, level) ==
    \E j \in DOMAIN original.blocks.a :
        /\ original.blocks.a[j].id = Str(blockId(k - 1))
        /\ original.blocks.a[j].type = Str(kind)
        /\ kind = "heading" => original.blocks.a[j].level = Num(level)

\* the first paragraph node of the body that is a block of the kind
FirstOfKind(kind, level) ==
    LET nodes == IndexedNodes(docx.body)
        hits == {k \in DOMAIN nodes : nodes[k].tag = "w:p" /\ BlockOfKind(k, kind, level)}
    IN IF hits = {} THEN NoNode
       ELSE nodes[CHOOSE k \in hits : \A h \in hits : k <= h]

FirstTable ==
    LET IsTbl(n) == n.tag = "w:tbl"
        tbls == SelectSeq(IndexedNodes(docx.body), IsTbl)
    IN IF tbls = <<>> THEN NoNode ELSE tbls[1]

HeadingLevels ==
    {original.blocks.a[j].level.n :
        j \in {i \in DOMAIN original.blocks.a : original.blocks.a[i].type = Str("heading")}}

\* C23: the template reconstructDocx records for the kind paragraph, title,
\* list_item or heading of level L is the first original paragraph node
\* whose block in the original Document has that kind (and level), and the
\* table template is the first original table node; a node that is not a
\* block of the kind is never the template of the kind.
C23_TemplatesAreBlocksOfKind ==
    Reconstructed =>
        LET t == Templates(docx.body, original)
        IN /\ t.paragraph = FirstOfKind("paragraph", 0)
           /\ t.title = FirstOfKind("title", 0)
           /\ t.list_item = FirstOfKind("list_item", 0)
           /\ t.table = FirstTable
           /\ DOMAIN t.headings = HeadingLevels
           /\ \A L \in DOMAIN t.headings : t.headings[L] = FirstOfKind("heading", L)

\* what does hold: the title, list_item and table templates and those of the
\* headings of a level other than 0 are as stated; the paragraph template is
\* the first node that is a paragraph block or no block at all
TemplatesButForSkipped ==
    Reconstructed =>
        LET t == Templates(docx.body, original)
            nodes == IndexedNodes(docx.body)
            hits == {k \in DOMAIN nodes :
                       /\ nodes[k].tag = "w:p"
                       /\ \/ BlockOfKind(k, "paragraph", 0)
                          \/ \A j \in DOMAIN original.blocks.a :
                                original.blocks.a[j].id # Str(blockId(k - 1))}
        IN /\ t.paragraph = IF hits = {} THEN NoNode
                             ELSE nodes[CHOOSE k \in hits : \A h \in hits : k <= h]
           /\ t.title = FirstOfKind("title", 0)
           /\ t.list_item = FirstOfKind("list_item", 0)
           /\ t.table = FirstTable
           /\ DOMAIN t.headings = HeadingLevels \ {0}
           /\ \A L \in DOMAIN t.headings : t.headings[L] = FirstOfKind("heading", L)

-----------------------------------------------------------------------------
(* Properties of new headings *)

\* the candidate's block at j is a heading under an id no node of the body
\* has, there are heading templates, and none is of its level
HeadingFromOtherLevel(j) ==
    /\ modified.blocks.a[j].type = Str("heading")
    /\ modified.blocks.a[j].id.s \notin DOMAIN originalBlockNodes(docx.body)
    /\ DOMAIN Templates(docx.body, original).headings # {}
    /\ modified.blocks.a[j].level.n \notin DOMAIN Templates(docx.body, original).headings

Distance(a, b) == IF a >= b THEN a - b ELSE b - a

\* the properties of a paragraph other than its style reference
OtherProps(node) ==
    LET NotStyle(n) == n.tag # "w:pStyle" IN SelectSeq(PropsOf(node), NotStyle)

\* the node has the properties of a heading template at the least distance
\* from the level
ClonesClosest(node, level) ==
    LET headings == Templates(docx.body, original).headings
    IN \E c \in DOMAIN headings :
          /\ \A d \in DOMAIN headings : Distance(c, level) <= Distance(d, level)
          /\ OtherProps(node) = OtherProps(headings[c])

\* the style reference of the node is a heading style of the level
DenotesLevel(node, level) ==
    /\ HasProp(node, "w:pStyle")
    /\ PropVal(node, "w:pStyle") \in DOMAIN StyleLevels
    /\ StyleLevels[PropVal(node, "w:pStyle")] = level

\* C24: the node made for a new heading block of level L when there are
\* heading templates but none of level L is a clone of a template at the
\* least distance from L, and its paragraph-style reference denotes level L,
\* the reference being created when the clone had none.
C24_ClosestTemplatePatched ==
    Reconstructed =>
        \A j \in 1..BlockCount :
            HeadingFromOtherLevel(j) =>
                /\ ClonesClosest(output.body[j], modified.blocks.a[j].level.n)
                /\ DenotesLevel(output.body[j], modified.blocks.a[j].level.n)

\* what does hold: the node is a clone of a closest template, and its style
\* reference denotes level L when styles.xml has a heading style of level L
\* and the template has paragraph properties
PatchedWhenPossible ==
    Reconstructed =>
        \A j \in 1..BlockCount :
            HeadingFromOtherLevel(j) =>
                LET L == modified.blocks.a[j].level.n
                    headings == Templates(docx.body, original).headings
                IN /\ ClonesClosest(output.body[j], L)
                   /\ (/\ \E st \in DOMAIN StyleLevels : StyleLevels[st] = L
                       /\ \A c \in DOMAIN headings : getFirstChild(headings[c], "w:pPr") # NoNode)
                      => DenotesLevel(output.body[j], L)

\* a new heading of level 2 cloned from a template of another level and
\* patched to the style of level 2
Patched ==
    /\ pc = "reconstructed"
    /\ HeadingFromOtherLevel(1)
    /\ modified.blocks.a[1].level.n = 2
    /\ DenotesLevel(output.body[1], 2)

\* a new heading of level 2 cloned from a template without paragraph
\* properties: it has no style reference
Unstyled ==
    /\ pc = "reconstructed"
    /\ HeadingFromOtherLevel(1)
    /\ modified.blocks.a[1].level.n = 2
    /\ PropsOf(output.body[1]) = <<>>

\* a new heading of level 3, for which styles.xml has no style: the clone
\* keeps the style of its template
StyleOfTemplateKept ==
    /\ pc = "reconstructed"
    /\ HeadingFromOtherLevel(1)
    /\ modified.blocks.a[1].level.n = 3
    /\ DenotesLevel(output.body[1], 1)

-----------------------------------------------------------------------------
(* Properties of the errors list *)

HasBlocksArray ==
    Truthy(modified) /\ TypeofObject(modified) /\ IsArray(Field(modified, "blocks"))

\* the violations reported for the block at index i (0-based, as reported)
ErrorsAt(i) ==
    LET At_i(e) == e.block = i IN SelectSeq(result.errors, At_i)

RulesAt(i) == {ErrorsAt(i)[q].rule : q \in DOMAIN ErrorsAt(i)}

\* rules a candidate block violates, read off the block alone
IsObject(b) == Truthy(b) /\ TypeofObject(b)
LacksId(b) == IsObject(b) /\ (~Truthy(Field(b, "id")) \/ Field(b, "id").k # "string")
LacksType(b) == IsObject(b) /\ ~ValidType(Field(b, "type"))
LacksText(b) ==
    /\ IsObject(b)
    /\ Field(b, "type") \in {Str("title"), Str("heading"), Str("paragraph"), Str("list_item")}
    /\ Field(b, "text").k # "string"
LacksLevel(b) ==
    /\ IsObject(b)
    /\ Field(b, "type") \in {Str("heading"), Str("list_item")}
    /\ LevelInvalid(Field(b, "level"))

\* the violations are listed in block order, those that name no block first
InBlockOrder ==
    \A p, q \in DOMAIN result.errors : p < q => result.errors[p].block <= result.errors[q].block

\* C25 as stated: for a candidate with a blocks array the errors are listed
\* in block order, and every block contributes a violation for every rule
\* it violates, whatever else is wrong with it or with another block.
C25_EveryViolatedRuleReported ==
    (FinishedNormally /\ HasBlocksArray) =>
        /\ InBlockOrder
        /\ \A i \in DOMAIN CandidateBlocks :
              LET b == CandidateBlocks[i]
              IN /\ ~IsObject(b) => "block_invalid" \in RulesAt(i - 1)
                 /\ LacksId(b) => "id_missing" \in RulesAt(i - 1)
                 /\ LacksType(b) => "type_invalid" \in RulesAt(i - 1)
                 /\ LacksText(b) => "text" \in RulesAt(i - 1)
                 /\ LacksLevel(b) =>
                       RulesAt(i - 1) \cap {"heading_level", "list_level"} # {}

\* the violations of block i other than duplicate ids, when the block is
\* validated as the only block of a candidate
AloneErrors(i) ==
    LET NotDuplicate(e) == e.rule \notin {"id_duplicate", "cell_id_duplicate"}
        alone == validateModifiedJson(Document(Metadata, Arr(<<CandidateBlocks[i]>>)),
                                      original).errors
    IN [q \in DOMAIN SelectSeq(alone, NotDuplicate) |->
          [SelectSeq(alone, NotDuplicate)[q] EXCEPT !.block = i - 1]]

\* C25, amended: the errors are listed in block order; the violations of a
\* block, duplicate ids apart, are those it has as the only block of a
\* candidate, so no other block suppresses them; a block with a string id
\* and a valid type contributes a violation for every rule on its text and
\* level it violates; a block that is no object, has no string id or has no
\* valid type is reported for that alone (and for a duplicate id before an
\* invalid type).
C25_StagedPerBlock ==
    (FinishedNormally /\ HasBlocksArray) =>
        /\ InBlockOrder
        /\ \A i \in DOMAIN CandidateBlocks :
              LET b == CandidateBlocks[i]
                  NotDuplicate(e) == e.rule \notin {"id_duplicate", "cell_id_duplicate"}
              IN /\ SelectSeq(ErrorsAt(i - 1), NotDuplicate) = AloneErrors(i)
                 /\ ~IsObject(b) => RulesAt(i - 1) = {"block_invalid"}
                 /\ LacksId(b) => RulesAt(i - 1) = {"id_missing"}
                 /\ (LacksType(b) /\ ~LacksId(b)) =>
                       /\ "type_invalid" \in RulesAt(i - 1)
                       /\ RulesAt(i - 1) \subseteq {"id_duplicate", "type_invalid"}
                 /\ (IsObject(b) /\ ~LacksId(b) /\ ~LacksType(b)) =>
                       /\ LacksText(b) => "text" \in RulesAt(i - 1)
                       /\ LacksLevel(b) =>
                             RulesAt(i - 1) \cap {"heading_level", "list_level"} # {}

\* a block that is not an object in front of a heading without level and text
C25_Witness ==
    /\ FinishedNormally /\ HasBlocksArray
    /\ Len(CandidateBlocks) = 2
    /\ ~IsObject(CandidateBlocks[1])
    /\ LacksText(CandidateBlocks[2]) /\ LacksLevel(CandidateBlocks[2])
    /\ RulesAt(0) = {"block_invalid"}
    /\ RulesAt(1) = {"heading_level", "text"}

-----------------------------------------------------------------------------
(* Properties of the root structure *)

\* the violations that name a block
BlockErrors(errors) ==
    LET OfBlock(e) == e.block >= 0 IN SelectSeq(errors, OfBlock)

\* the violations that name no block
RootViolations(errors) ==
    LET OfRoot(e) == e.block < 0 IN SelectSeq(errors, OfRoot)

\* the candidate with a metadata object in the place of its own
WithMetadata == Document(Metadata, Field(modified, "blocks"))

\* C26 as stated: a candidate that is an object with a blocks array and whose
\* blocks violate no rule is accepted, and its verdict is the one of the
\* same candidate with a metadata object.
C26_OnlyObjectAndBlocksRequired ==
    (FinishedNormally /\ HasBlocksArray) =>
        /\ BlockErrors(result.errors) = <<>> => result.valid
        /\ result.valid = validateModifiedJson(WithMetadata, original).valid

\* C26, amended: the root-level requirements are that the candidate is an
\* object, has a blocks array and has a metadata object. A candidate with
\* a blocks array is accepted exactly when it has a metadata object and its
\* blocks violate no rule; a metadata that is absent or not an object is
\* one violation, the first of the list, and it changes nothing in the
\* violations of the blocks.
C26_MetadataRequired ==
    (FinishedNormally /\ HasBlocksArray) =>
        /\ result.valid = (HasMetadata /\ BlockErrors(result.errors) = <<>>)
        /\ RootViolations(result.errors) =
              IF HasMetadata THEN <<>> ELSE <<Err("metadata", -1, -1, -1)>>
        /\ BlockErrors(result.errors) =
              validateModifiedJson(WithMetadata, original).errors
        /\ result.errors = RootViolations(result.errors) \o BlockErrors(result.errors)

\* a candidate whose only violation is a metadata that is not an object
C26_Witness ==
    /\ FinishedNormally /\ HasBlocksArray
    /\ Field(modified, "metadata") = Str("meta")
    /\ Len(CandidateBlocks) > 0
    /\ ~result.valid
    /\ result.errors = <<Err("metadata", -1, -1, -1)>>

-----------------------------------------------------------------------------
(* Properties of the existing blocks *)

\* the id of a candidate block is the id of a block of the original Document
InOriginalDocument(block) ==
    \E q \in DOMAIN original.blocks.a : original.blocks.a[q].id = block.id

\* the element a block of a type is written as
TagOfType(type) == IF type = Str("table") THEN "w:tbl" ELSE "w:p"

\* C27: for every accepted candidate, reconstructDocx takes the original node
\* of a block exactly when the block's id is the id of a block of the
\* original Document, and a block whose id is not in the original Document
\* becomes a new node of its declared type.
C27_ExistingAgreed ==
    Reconstructed =>
        \A j \in DOMAIN modified.blocks.a :
            LET block == modified.blocks.a[j]
            IN /\ HasOriginalNode(docx.body, block.id) <=> InOriginalDocument(block)
               /\ ~InOriginalDocument(block) =>
                     /\ output.body[j].tag = TagOfType(block.type)
                     /\ output.body[j] =
                           createNewBlock(block, Templates(docx.body, original),
                                          buildHeadingStyleReverseMap(docx.styles))

\* what does hold: the blocks of the original Document all have a node, and
\* a block the Validator took for new is synthesized when no node of the
\* body was numbered with its id
ExistingThenCloned ==
    Reconstructed =>
        \A j \in DOMAIN modified.blocks.a :
            LET block == modified.blocks.a[j]
            IN /\ InOriginalDocument(block) => HasOriginalNode(docx.body, block.id)
               /\ ~HasOriginalNode(docx.body, block.id) =>
                     output.body[j].tag = TagOfType(block.type)

\* an accepted table block under the id of a paragraph the extraction
\* skipped comes out as that paragraph
TableComesOutAsParagraph ==
    /\ Reconstructed
    /\ modified.blocks.a[1].type = Str("table")
    /\ ~InOriginalDocument(modified.blocks.a[1])
    /\ HasOriginalNode(docx.body, modified.blocks.a[1].id)
    /\ output.body[1] = removeImages(OriginalNode(docx.body, modified.blocks.a[1].id))
    /\ output.body[1].tag = "w:p"

-----------------------------------------------------------------------------
(* Properties of rewritten cells *)

\* the cells of existing tables that have a paragraph and are given a text
\* without emphasis markers, as <<block, row, cell>> positions (1-based) of
\* the candidate
RewrittenCells ==
    { pos \in (DOMAIN modified.blocks.a) \X (1..3) \X (1..3) :
        LET block == modified.blocks.a[pos[1]]
        IN /\ block.type = Str("table")
           /\ HasOriginalNode(docx.body, block.id)
           /\ OriginalNode(docx.body, block.id).tag = "w:tbl"
           /\ pos[2] \in DOMAIN block.rows.a
           /\ pos[3] \in DOMAIN block.rows.a[pos[2]].a
           /\ \A q \in DOMAIN block.rows.a[pos[2]].a[pos[3]].text.t :
                 block.rows.a[pos[2]].a[pos[3]].text.t[q] # "*"
           /\ pos[2] \in DOMAIN getDirectChildren(output.body[pos[1]], "w:tr")
           /\ pos[3] \in DOMAIN getDirectChildren(
                                   getDirectChildren(output.body[pos[1]], "w:tr")[pos[2]], "w:tc")
           /\ getDirectChildren(
                 getDirectChildren(
                    getDirectChildren(output.body[pos[1]], "w:tr")[pos[2]], "w:tc")[pos[3]],
                 "w:p") # <<>> }

\* the lines of the candidate's text for the cell at a position
CandidateLines(pos) ==
    SplitLines(modified.blocks.a[pos[1]].rows.a[pos[2]].a[pos[3]].text.t)

\* the texts of the paragraphs of the reconstructed cell at a position
CellParagraphTexts(pos) ==
    LET ps == getDirectChildren(
                 getDirectChildren(
                    getDirectChildren(output.body[pos[1]], "w:tr")[pos[2]], "w:tc")[pos[3]],
                 "w:p")
    IN [i \in DOMAIN ps |-> getFormattedText(ps[i])]

\* the lines as updateCellText is to lay them over n paragraphs
LaidOver(lines, n) ==
    [i \in 1..n |->
        IF i > Len(lines) THEN <<>>
        ELSE IF i = n /\ Len(lines) > n THEN JoinLines(SubSeq(lines, n, Len(lines)))
        ELSE lines[i]]

\* C28: when an existing cell with a paragraph is rewritten (here with a
\* text that has no emphasis markers), line i of the candidate's text is
\* the text of the cell's i-th paragraph and the overflow lines are all in
\* the last paragraph: no line is lost.
C28_NoCellTextLost ==
    Reconstructed =>
        \A pos \in RewrittenCells :
            CellParagraphTexts(pos) =
                LaidOver(CandidateLines(pos), Len(CellParagraphTexts(pos)))

\* what does hold: the lines are laid over the paragraphs when there is no
\* overflow or the line of the last paragraph is not empty
LaidOverUnlessLastLineEmpty ==
    Reconstructed =>
        \A pos \in RewrittenCells :
            LET n == Len(CellParagraphTexts(pos))
            IN (Len(CandidateLines(pos)) <= n \/ CandidateLines(pos)[n] # <<>>) =>
                  CellParagraphTexts(pos) = LaidOver(CandidateLines(pos), n)

\* overflow lines laid onto the last paragraph of a cell
OverflowKept ==
    /\ Reconstructed
    /\ \E pos \in RewrittenCells :
          /\ Len(CandidateLines(pos)) = 3
          /\ CellParagraphTexts(pos) = <<<<"x">>, <<"y", "\n", "z">>>>

\* overflow lines lost after an empty line
OverflowLost ==
    /\ Reconstructed
    /\ \E pos \in RewrittenCells :
          /\ CandidateLines(pos) = <<<<>>, <<"y">>>>
          /\ CellParagraphTexts(pos) = <<<<>>>>

-----------------------------------------------------------------------------
(* Properties of the client *)

\* C29: whenever state.validated is true, the text of the modified-JSON
\* field and the current documentId are those of the request the last
\* validation verdict received was for, and that verdict was valid.
C29_ValidatedMeansCurrentTextValid ==
    state.validated =>
        /\ lastValidation.valid
        /\ lastValidation.text = jsonModified
        /\ lastValidation.documentId = state.documentId

\* what does hold: state.validated is true only after a verdict of valid,
\* for some text and some document
ValidatedAfterValidVerdict ==
    state.validated => lastValidation.valid

\* Generate sends a text that was edited while its validation was in flight
GenerateOfUnvalidatedText ==
    \E f \in fetches :
        /\ f.kind = "reconstruct"
        /\ lastValidation.valid
        /\ f.text # lastValidation.text

\* the verdict for one document enables Generate for another
ValidatedForOtherDocument ==
    /\ state.validated
    /\ state.documentId # lastValidation.documentId

-----------------------------------------------------------------------------
(* Properties of callAI *)

\* the primary request failed because the model is unavailable (status 404,
\* or a reported error text that names 404, a model not found or no
\* endpoints) or because the response was empty
UnavailableOrEmpty(settled) ==
    /\ settled.kind = "response"
    /\ \/ settled.status = 200 /\ settled.content = "short"
       \/ settled.status = 404
       \/ /\ settled.status \in {429, 500}
          /\ \E piece \in {"404", "not found", "No endpoints"} : Includes(settled.text, piece)

RequestsBounded ==
    /\ Len(requests) <= 2
    /\ provider \notin DOMAIN providers => requests = <<>>
    /\ Len(requests) >= 1 => requests[1].model = providers[provider].model
    /\ Len(requests) = 2 =>
          /\ providers[provider].fallbackModel # ""
          /\ requests[2].model = providers[provider].fallbackModel
          /\ UnavailableOrEmpty(requests[1].settled)
    /\ (pc = "returned" /\ Len(requests) = 2) =>
          outcome = callOpenAICompatible(fallbackConfig(providers[provider]),
                                         requests[2].settled)
    /\ (pc = "returned" /\ provider \notin DOMAIN providers) => outcome.threw

ThrewWithoutFallback ==
    /\ pc = "returned"
    /\ provider = "openai"
    /\ Len(requests) = 1
    /\ requests[1].settled.status = 404
    /\ outcome.threw

====
